---- MODULE Spec2Model ----
(***************************************************************************)
(* A model of dataclass_argparser.parser.DataclassArgParser: the decoding  *)
(* of command-line tokens, the resolution of every field from command      *)
(* line, configuration file and declared default, the validation of the    *)
(* resolved values and the assembly of the record instances.               *)
(*                                                                         *)
(* Python strings are sequences of one-character strings, so that the      *)
(* string operations of the code (strip, split, startswith, int(), ...)    *)
(* are computed and not assumed.  A dotted name such as "Outer.inner.x" is *)
(* the sequence of its components <<Outer, inner, x>>: names hold no dot,  *)
(* so equality and startswith(prefix + ".") on the dotted strings are      *)
(* equality and proper-prefix on the component sequences.                  *)
(***************************************************************************)
EXTENDS Integers, Sequences, FiniteSets, TLC

VARIABLES parser, args, cfgfile, call, outcome, orig

vars == <<parser, args, cfgfile, call, outcome, orig>>

-----------------------------------------------------------------------------
(* Python values, tagged by their Python type.                             *)

IntV(n) == [t |-> "int", v |-> n]

\* the float m / 10^e, kept normalised by NormFloat
FloatV(m, e) == [t |-> "float", v |-> <<m, e>>]

BoolV(b) == [t |-> "bool", v |-> b]

StrV(s) == [t |-> "str", v |-> s]

NoneV == [t |-> "NoneType", v |-> <<>>]

ListV(xs) == [t |-> "list", v |-> xs]

TupleV(xs) == [t |-> "tuple", v |-> xs]

DictV(f) == [t |-> "dict", v |-> f]

InstV(cls, f) == [t |-> "instance", v |-> [cls |-> cls, fields |-> f]]

\* dataclasses.MISSING
MISSING == [t |-> "MISSING", v |-> <<>>]

\* an exception raised by a conversion (ValueError, TypeError, SyntaxError,
\* argparse.ArgumentTypeError)
ConvError == [t |-> "error", v |-> <<>>]

IsError(x) == x.t = "error"

RECURSIVE Pow10(_)
Pow10(e) == IF e = 0 THEN 1 ELSE 10 * Pow10(e - 1)

RECURSIVE NormFloat(_, _)
NormFloat(m, e) ==
    IF e > 0 /\ m % 10 = 0 THEN NormFloat(m \div 10, e - 1) ELSE FloatV(m, e)

-----------------------------------------------------------------------------
(* Python's str methods, on sequences of characters.                       *)

IsDigit(c) == c \in {"0", "1", "2", "3", "4", "5", "6", "7", "8", "9"}

DigitVal(c) ==
    CASE c = "0" -> 0 [] c = "1" -> 1 [] c = "2" -> 2 [] c = "3" -> 3
      [] c = "4" -> 4 [] c = "5" -> 5 [] c = "6" -> 6 [] c = "7" -> 7
      [] c = "8" -> 8 [] c = "9" -> 9

AllDigits(s) == \A i \in 1..Len(s) : IsDigit(s[i])

RECURSIVE DecimalValue(_)
DecimalValue(s) ==
    IF s = <<>> THEN 0
    ELSE 10 * DecimalValue(SubSeq(s, 1, Len(s) - 1)) + DigitVal(s[Len(s)])

RECURSIVE LStrip(_)
LStrip(s) == IF s # <<>> /\ s[1] = " " THEN LStrip(Tail(s)) ELSE s

RECURSIVE RStrip(_)
RStrip(s) ==
    IF s # <<>> /\ s[Len(s)] = " " THEN RStrip(SubSeq(s, 1, Len(s) - 1)) ELSE s

\* str.strip()
Strip(s) == RStrip(LStrip(s))

\* s.startswith(c) and s.endswith(d) for one-character c and d
StartsWith(s, c) == s # <<>> /\ s[1] = c

EndsWith(s, c) == s # <<>> /\ s[Len(s)] = c

\* s[1:-1]
Inside(s) == SubSeq(s, 2, Len(s) - 1)

\* the index of the first c in s, 0 if there is none
RECURSIVE Find(_, _, _)
Find(s, c, i) ==
    IF i > Len(s) THEN 0 ELSE IF s[i] = c THEN i ELSE Find(s, c, i + 1)

\* s.split(c): always at least one piece
RECURSIVE Split(_, _)
Split(s, c) ==
    LET i == Find(s, c, 1)
    IN  IF i = 0 THEN <<s>>
        ELSE <<SubSeq(s, 1, i - 1)>> \o Split(SubSeq(s, i + 1, Len(s)), c)

\* [item.strip() for item in s.split(",") if item.strip()]
RECURSIVE StripNonEmpty(_)
StripNonEmpty(pieces) ==
    IF pieces = <<>> THEN <<>>
    ELSE LET p == Strip(Head(pieces))
         IN  (IF p = <<>> THEN <<>> ELSE <<p>>) \o StripNonEmpty(Tail(pieces))

Items(s) == StripNonEmpty(Split(s, ","))

-----------------------------------------------------------------------------
(* Python's conversions.  The strings handed to int(), float() and         *)
(* ast.literal_eval() are written with digits, letters, space and          *)
(* . , ( ) [ ] = so signs, underscores, exponents and quotes do not occur   *)
(* in them.                                                                *)

\* int(s) for a string s
IntOfStr(s) ==
    LET u == Strip(s)
    IN  IF u # <<>> /\ AllDigits(u) THEN IntV(DecimalValue(u)) ELSE ConvError

\* a decimal with one point and at least one digit: "1.5", "1.", ".5"
IsPointNumber(u) ==
    LET i == Find(u, ".", 1)
    IN  /\ i > 0
        /\ Len(u) > 1
        /\ AllDigits(SubSeq(u, 1, i - 1))
        /\ AllDigits(SubSeq(u, i + 1, Len(u)))

PointNumber(u) ==
    LET i == Find(u, ".", 1)
    IN  NormFloat(DecimalValue(SubSeq(u, 1, i - 1) \o SubSeq(u, i + 1, Len(u))),
                  Len(u) - i)

\* float(s) for a string s
FloatOfStr(s) ==
    LET u == Strip(s)
    IN  IF u # <<>> /\ AllDigits(u) THEN FloatV(DecimalValue(u), 0)
        ELSE IF IsPointNumber(u) THEN PointNumber(u)
        ELSE ConvError

\* an integer literal of Python source: no leading zero unless all zeros
IsIntLiteral(u) ==
    u # <<>> /\ AllDigits(u) /\ (u[1] # "0" \/ \A i \in 1..Len(u) : u[i] = "0")

\* ast.literal_eval(s) for a string s without comma: a number, True, False,
\* None, the empty tuple, or one of these in parentheses, the empty list or
\* the list of one of these; anything else raises ValueError or SyntaxError
RECURSIVE literal_eval(_)
literal_eval(s) ==
    LET u == Strip(s)
    IN  IF IsIntLiteral(u) THEN IntV(DecimalValue(u))
        ELSE IF IsPointNumber(u) THEN PointNumber(u)
        ELSE IF u = <<"T", "r", "u", "e">> THEN BoolV(TRUE)
        ELSE IF u = <<"F", "a", "l", "s", "e">> THEN BoolV(FALSE)
        ELSE IF u = <<"N", "o", "n", "e">> THEN NoneV
        ELSE IF StartsWith(u, "(") /\ EndsWith(u, ")") /\ Len(u) >= 2
             THEN IF Strip(Inside(u)) = <<>> THEN TupleV(<<>>)
                  ELSE literal_eval(Inside(u))
        ELSE IF StartsWith(u, "[") /\ EndsWith(u, "]") /\ Len(u) >= 2
             THEN IF Strip(Inside(u)) = <<>> THEN ListV(<<>>)
                  ELSE IF IsError(literal_eval(Inside(u))) THEN ConvError
                  ELSE ListV(<<literal_eval(Inside(u))>>)
        ELSE ConvError

\* int(x) for a value x
IntOf(x) ==
    CASE x.t = "int" -> x
      [] x.t = "bool" -> IntV(IF x.v THEN 1 ELSE 0)
      [] x.t = "float" -> IntV(x.v[1] \div Pow10(x.v[2]))
      [] x.t = "str" -> IntOfStr(x.v)
      [] OTHER -> ConvError

\* float(x) for a value x
FloatOf(x) ==
    CASE x.t = "int" -> FloatV(x.v, 0)
      [] x.t = "bool" -> FloatV(IF x.v THEN 1 ELSE 0, 0)
      [] x.t = "float" -> x
      [] x.t = "str" -> FloatOfStr(x.v)
      [] OTHER -> ConvError

\* bool(x) for a value x: its truth value
BoolOf(x) ==
    CASE x.t = "int" -> BoolV(x.v # 0)
      [] x.t = "bool" -> x
      [] x.t = "float" -> BoolV(x.v[1] # 0)
      [] x.t \in {"str", "list", "tuple"} -> BoolV(x.v # <<>>)
      [] x.t = "dict" -> BoolV(DOMAIN x.v # {})
      [] x.t = "NoneType" -> BoolV(FALSE)
      [] OTHER -> BoolV(TRUE)

-----------------------------------------------------------------------------
(* The names of the record types and of their fields.                      *)

N_BasicTypesConfig == <<"B", "a", "s", "i", "c", "T", "y", "p", "e", "s", "C", "o", "n", "f", "i", "g">>

N_int_field == <<"i", "n", "t", "_", "f", "i", "e", "l", "d">>

N_float_field == <<"f", "l", "o", "a", "t", "_", "f", "i", "e", "l", "d">>

N_str_field == <<"s", "t", "r", "_", "f", "i", "e", "l", "d">>

N_bool_field == <<"b", "o", "o", "l", "_", "f", "i", "e", "l", "d">>

N_RequiredFieldsConfig == <<"R", "e", "q", "u", "i", "r", "e", "d", "F", "i", "e", "l", "d", "s", "C", "o", "n", "f", "i", "g">>

N_required_string == <<"r", "e", "q", "u", "i", "r", "e", "d", "_", "s", "t", "r", "i", "n", "g">>

N_required_int == <<"r", "e", "q", "u", "i", "r", "e", "d", "_", "i", "n", "t">>

N_optional_field == <<"o", "p", "t", "i", "o", "n", "a", "l", "_", "f", "i", "e", "l", "d">>

N_Inner == <<"I", "n", "n", "e", "r">>

N_Outer == <<"O", "u", "t", "e", "r">>

N_SecondaryOuter == <<"S", "e", "c", "o", "n", "d", "a", "r", "y", "O", "u", "t", "e", "r">>

N_InnerWithNoDefaults == <<"I", "n", "n", "e", "r", "W", "i", "t", "h", "N", "o", "D", "e", "f", "a", "u", "l", "t", "s">>

N_OuterWithFactory == <<"O", "u", "t", "e", "r", "W", "i", "t", "h", "F", "a", "c", "t", "o", "r", "y">>

N_TupleConfig == <<"T", "u", "p", "l", "e", "C", "o", "n", "f", "i", "g">>

N_DictTypesConfig == <<"D", "i", "c", "t", "T", "y", "p", "e", "s", "C", "o", "n", "f", "i", "g">>

N_OuterWithList == <<"O", "u", "t", "e", "r", "W", "i", "t", "h", "L", "i", "s", "t">>

N_OuterWithTuple == <<"O", "u", "t", "e", "r", "W", "i", "t", "h", "T", "u", "p", "l", "e">>

N_inners == <<"i", "n", "n", "e", "r", "s">>

N_SampleConfig == <<"S", "a", "m", "p", "l", "e", "C", "o", "n", "f", "i", "g">>

N_name == <<"n", "a", "m", "e">>

N_count == <<"c", "o", "u", "n", "t">>

N_threshold == <<"t", "h", "r", "e", "s", "h", "o", "l", "d">>

N_mode == <<"m", "o", "d", "e">>

N_OptionalFieldsConfig == <<"O", "p", "t", "i", "o", "n", "a", "l", "F", "i", "e", "l", "d", "s", "C", "o", "n", "f", "i", "g">>

N_OptionalWithDefaultsConfig == <<"O", "p", "t", "i", "o", "n", "a", "l", "W", "i", "t", "h", "D", "e", "f", "a", "u", "l", "t", "s", "C", "o", "n", "f", "i", "g">>

N_optional_str == <<"o", "p", "t", "i", "o", "n", "a", "l", "_", "s", "t", "r">>

N_optional_int == <<"o", "p", "t", "i", "o", "n", "a", "l", "_", "i", "n", "t">>

N_optional_float == <<"o", "p", "t", "i", "o", "n", "a", "l", "_", "f", "l", "o", "a", "t">>

N_optional_bool == <<"o", "p", "t", "i", "o", "n", "a", "l", "_", "b", "o", "o", "l">>

N_required_str == <<"r", "e", "q", "u", "i", "r", "e", "d", "_", "s", "t", "r">>

N_ListConfig == <<"L", "i", "s", "t", "C", "o", "n", "f", "i", "g">>

N_numbers == <<"n", "u", "m", "b", "e", "r", "s">>

N_names == <<"n", "a", "m", "e", "s">>

N_Top == <<"T", "o", "p">>

N_Middle == <<"M", "i", "d", "d", "l", "e">>

N_middle == <<"m", "i", "d", "d", "l", "e">>

N_base == <<"b", "a", "s", "e">>

N_BoolDictConfig == <<"B", "o", "o", "l", "D", "i", "c", "t", "C", "o", "n", "f", "i", "g">>

N_str_bool_dict == <<"s", "t", "r", "_", "b", "o", "o", "l", "_", "d", "i", "c", "t">>

N_str_int_dict == <<"s", "t", "r", "_", "i", "n", "t", "_", "d", "i", "c", "t">>

N_str_float_dict == <<"s", "t", "r", "_", "f", "l", "o", "a", "t", "_", "d", "i", "c", "t">>

N_inner == <<"i", "n", "n", "e", "r">>

N_outer == <<"o", "u", "t", "e", "r">>

N_label == <<"l", "a", "b", "e", "l">>

N_coords == <<"c", "o", "o", "r", "d", "s">>

N_pair == <<"p", "a", "i", "r">>

N_config == <<"c", "o", "n", "f", "i", "g">>

N_x == <<"x">>

N_y == <<"y">>

N_z == <<"z">>

N_a == <<"a">>

N_b == <<"b">>

\* string constants of the declared defaults

S_optional_default == <<"o", "p", "t", "i", "o", "n", "a", "l", "_", "d", "e", "f", "a", "u", "l", "t">>

S_foo == <<"f", "o", "o">>

S_main == <<"m", "a", "i", "n">>

S_bar == <<"b", "a", "r">>

S_default_name == <<"d", "e", "f", "a", "u", "l", "t", "_", "n", "a", "m", "e">>

S_fast == <<"f", "a", "s", "t">>

S_required == <<"r", "e", "q", "u", "i", "r", "e", "d">>

S_default_value == <<"d", "e", "f", "a", "u", "l", "t", "_", "v", "a", "l", "u", "e">>

S_slow == <<"s", "l", "o", "w">>

-----------------------------------------------------------------------------
(* Type hints.  k is the kind, args the type arguments (Tuple, List, Dict, *)
(* Optional) and cls the record type of a dataclass hint.                  *)

T_int == [k |-> "int", args |-> <<>>, cls |-> <<>>]

T_float == [k |-> "float", args |-> <<>>, cls |-> <<>>]

T_str == [k |-> "str", args |-> <<>>, cls |-> <<>>]

T_bool == [k |-> "bool", args |-> <<>>, cls |-> <<>>]

T_tuple(ts) == [k |-> "tuple", args |-> ts, cls |-> <<>>]

T_list(e) == [k |-> "list", args |-> <<e>>, cls |-> <<>>]

T_dict(kt, vt) == [k |-> "dict", args |-> <<kt, vt>>, cls |-> <<>>]

T_Literal(choices) == [k |-> "Literal", args |-> choices, cls |-> <<>>]

T_Optional(inner) == [k |-> "Optional", args |-> <<inner>>, cls |-> <<>>]

T_dataclass(c) == [k |-> "dataclass", args |-> <<>>, cls |-> c]

\* dataclasses.is_dataclass(arg_type)
is_dataclass(ty) == ty.k = "dataclass"

\* a field of a dataclass: dflt is "default", "default_factory" or "MISSING",
\* value the default or what the factory returns
Field(n, ty, d, val) == [name |-> n, type |-> ty, dflt |-> d, value |-> val]

Inner_default == InstV(N_Inner, (N_x :> IntV(1)) @@ (N_y :> StrV(S_foo)))

Outer_default ==
    InstV(N_Outer, (N_inner :> Inner_default) @@ (N_z :> FloatV(314, 2)))

InnerWithNoDefaults_default ==
    InstV(N_InnerWithNoDefaults, (N_a :> IntV(1)) @@ (N_b :> IntV(2)))

Inner_other == InstV(N_Inner, (N_x :> IntV(2)) @@ (N_y :> StrV(S_bar)))

Middle_default ==
    InstV(N_Middle, (N_inner :> InnerWithNoDefaults_default) @@ (N_base :> Inner_other)
                    @@ (N_z :> FloatV(314, 2)))

\* dataclasses.fields(cls) of the record types of the test suite, and of
\* two record types that nest them one level deeper: Middle holds an
\* InnerWithNoDefaults and an Inner, both from factories whose instances
\* differ from the defaults of the leaves, beside a leaf; Top holds a Middle.
\* BoolDictConfig is DictTypesConfig for the value type bool
fields(cls) ==
    CASE cls = N_BasicTypesConfig ->
           << Field(N_int_field, T_int, "default", IntV(0)),
              Field(N_float_field, T_float, "default", FloatV(0, 0)),
              Field(N_str_field, T_str, "default", StrV(<<>>)),
              Field(N_bool_field, T_bool, "default", BoolV(FALSE)) >>
      [] cls = N_RequiredFieldsConfig ->
           << Field(N_required_string, T_str, "MISSING", MISSING),
              Field(N_required_int, T_int, "MISSING", MISSING),
              Field(N_optional_field, T_str, "default", StrV(S_optional_default)) >>
      [] cls = N_Inner ->
           << Field(N_x, T_int, "default", IntV(1)),
              Field(N_y, T_str, "default", StrV(S_foo)) >>
      [] cls = N_Outer ->
           << Field(N_inner, T_dataclass(N_Inner), "default_factory", Inner_default),
              Field(N_z, T_float, "default", FloatV(314, 2)) >>
      [] cls = N_SecondaryOuter ->
           << Field(N_outer, T_dataclass(N_Outer), "default_factory", Outer_default),
              Field(N_label, T_str, "default", StrV(S_main)) >>
      [] cls = N_InnerWithNoDefaults ->
           << Field(N_a, T_int, "MISSING", MISSING),
              Field(N_b, T_int, "MISSING", MISSING) >>
      [] cls = N_OuterWithFactory ->
           << Field(N_inner, T_dataclass(N_InnerWithNoDefaults), "default_factory",
                    InstV(N_InnerWithNoDefaults,
                          (N_a :> IntV(1)) @@ (N_b :> IntV(2)))) >>
      [] cls = N_Middle ->
           << Field(N_inner, T_dataclass(N_InnerWithNoDefaults), "default_factory",
                    InnerWithNoDefaults_default),
              Field(N_base, T_dataclass(N_Inner), "default_factory", Inner_other),
              Field(N_z, T_float, "default", FloatV(314, 2)) >>
      [] cls = N_Top ->
           << Field(N_middle, T_dataclass(N_Middle), "default_factory", Middle_default),
              Field(N_label, T_str, "default", StrV(S_main)) >>
      [] cls = N_TupleConfig ->
           << Field(N_coords, T_tuple(<<T_int, T_int, T_int>>), "default",
                    TupleV(<<IntV(1), IntV(2), IntV(3)>>)),
              Field(N_pair, T_tuple(<<T_str, T_float>>), "default",
                    TupleV(<<StrV(<<"x">>), FloatV(15, 1)>>)) >>
      [] cls = N_OuterWithList ->
           << Field(N_inners, T_list(T_dataclass(N_Inner)), "default_factory",
                    ListV(<<Inner_default,
                            InstV(N_Inner, (N_x :> IntV(2)) @@ (N_y :> StrV(S_bar)))>>)),
              Field(N_z, T_float, "default", FloatV(314, 2)) >>
      [] cls = N_OuterWithTuple ->
           << Field(N_pair, T_tuple(<<T_dataclass(N_Inner), T_dataclass(N_Inner)>>),
                    "default",
                    TupleV(<<Inner_default,
                             InstV(N_Inner, (N_x :> IntV(2)) @@ (N_y :> StrV(S_bar)))>>)),
              Field(N_z, T_float, "default", FloatV(314, 2)) >>
      [] cls = N_SampleConfig ->
           << Field(N_name, T_str, "default", StrV(S_default_name)),
              Field(N_count, T_int, "default", IntV(5)),
              Field(N_threshold, T_float, "default", FloatV(5, 1)),
              Field(N_mode, T_Literal(<<StrV(S_fast), StrV(S_slow)>>), "default",
                    StrV(S_fast)) >>
      [] cls = N_OptionalFieldsConfig ->
           << Field(N_optional_str, T_Optional(T_str), "default", NoneV),
              Field(N_optional_int, T_Optional(T_int), "default", NoneV),
              Field(N_optional_float, T_Optional(T_float), "default", NoneV),
              Field(N_optional_bool, T_Optional(T_bool), "default", NoneV),
              Field(N_required_str, T_str, "default", StrV(S_required)) >>
      [] cls = N_OptionalWithDefaultsConfig ->
           << Field(N_optional_str, T_Optional(T_str), "default", StrV(S_default_value)),
              Field(N_optional_int, T_Optional(T_int), "default", IntV(42)) >>
      [] cls = N_ListConfig ->
           << Field(N_numbers, T_list(T_int), "default_factory",
                    ListV(<<IntV(1), IntV(2), IntV(3)>>)),
              Field(N_names, T_list(T_str), "default_factory",
                    ListV(<<StrV(<<"a">>), StrV(<<"b">>)>>)) >>
      [] cls = N_BoolDictConfig ->
           << Field(N_str_bool_dict, T_dict(T_str, T_bool), "default_factory",
                    DictV(<<>>)) >>
      [] cls = N_DictTypesConfig ->
           << Field(N_str_int_dict, T_dict(T_str, T_int), "default_factory",
                    DictV(<<>>)),
              Field(N_str_float_dict, T_dict(T_str, T_float), "default_factory",
                    DictV(<<>>)) >>

FieldNames(cls) == {fields(cls)[i].name : i \in 1..Len(fields(cls))}

FieldOf(cls, n) == CHOOSE f \in {fields(cls)[i] : i \in 1..Len(fields(cls))} : f.name = n


-----------------------------------------------------------------------------
(* The decoders argparse applies to a command-line token (type=...).       *)

\* str.lower() on the letters of the tokens
Lower(s) ==
    [i \in 1..Len(s) |->
        CASE s[i] = "T" -> "t" [] s[i] = "R" -> "r" [] s[i] = "U" -> "u"
          [] s[i] = "E" -> "e" [] s[i] = "F" -> "f" [] s[i] = "A" -> "a"
          [] s[i] = "L" -> "l" [] s[i] = "S" -> "s" [] s[i] = "Y" -> "y"
          [] OTHER -> s[i]]

\* a _strict_bool that compares value.lower()
strict_bool_any_case(value) ==
    IF Lower(value) \in {<<"t", "r", "u", "e">>, <<"1">>} THEN BoolV(TRUE)
    ELSE IF Lower(value) \in {<<"f", "a", "l", "s", "e">>, <<"0">>} THEN BoolV(FALSE)
    ELSE ConvError

\* _strict_bool
strict_bool(value) ==
    IF value \in {<<"T", "r", "u", "e">>, <<"t", "r", "u", "e">>, <<"1">>}
    THEN BoolV(TRUE)
    ELSE IF value \in {<<"F", "a", "l", "s", "e">>, <<"f", "a", "l", "s", "e">>, <<"0">>}
    THEN BoolV(FALSE)
    ELSE ConvError

\* the conversion of an item without typ(value): the literal has to be of
\* the type itself, so 1.5 is no int and 42 no float
convert_item_exact(typ, item) ==
    IF typ.k \in {"int", "float", "bool"}
    THEN LET value == literal_eval(item)
         IN  IF IsError(value) \/ value.t # typ.k THEN ConvError ELSE value
    ELSE IF typ.k = "str" THEN StrV(item)
    ELSE ConvError

\* value = ast.literal_eval(item) if typ in (int, float, bool) else item;
\* value = typ(value).  A dataclass called with the one positional argument
\* item sets its first field to item and the others to their defaults
convert_item(typ, item) ==
    IF typ.k \in {"int", "float", "bool"}
    THEN LET value == literal_eval(item)
         IN  IF IsError(value) THEN ConvError
             ELSE CASE typ.k = "int" -> IntOf(value)
                    [] typ.k = "float" -> FloatOf(value)
                    [] typ.k = "bool" -> BoolOf(value)
    ELSE IF typ.k = "str" THEN StrV(item)
    ELSE IF typ.k = "dataclass"
    THEN IF /\ fields(typ.cls) # <<>>
            /\ \A i \in 2..Len(fields(typ.cls)) : fields(typ.cls)[i].dflt # "MISSING"
         THEN InstV(typ.cls, [n \in FieldNames(typ.cls) |->
                                 IF n = fields(typ.cls)[1].name THEN StrV(item)
                                 ELSE FieldOf(typ.cls, n).value])
         ELSE ConvError
    ELSE ConvError

\* s[1:-1] if s.startswith(open) and s.endswith(close) else s
Unwrap(s, open, close) ==
    IF StartsWith(s, open) /\ EndsWith(s, close) THEN Inside(s) ELSE s

\* parse_tuple without the test of the number of items: zip() pairs the
\* items with the expected types as far as both reach
parse_tuple_without_length_check(tuple_type, s) ==
    LET items == Items(Unwrap(s, "(", ")"))
        expected_types == tuple_type.args
        n == IF Len(items) < Len(expected_types) THEN Len(items) ELSE Len(expected_types)
        result == [i \in 1..n |-> convert_item(expected_types[i], items[i])]
    IN  IF \E i \in 1..n : IsError(result[i]) THEN ConvError
        ELSE TupleV(result)

\* _tuple_type_factory(tuple_type).parse_tuple
parse_tuple(tuple_type, s) ==
    LET items == Items(Unwrap(s, "(", ")"))
        expected_types == tuple_type.args
        result == [i \in 1..Len(items) |-> convert_item(expected_types[i], items[i])]
    IN  IF Len(items) # Len(expected_types) THEN ConvError
        ELSE IF \E i \in 1..Len(items) : IsError(result[i]) THEN ConvError
        ELSE TupleV(result)

\* _list_type_factory(list_type).parse_list
parse_list(list_type, s) ==
    LET items == Items(Unwrap(s, "[", "]"))
        elem_type == IF list_type.args # <<>> THEN list_type.args[1] ELSE T_str
        result == [i \in 1..Len(items) |-> convert_item(elem_type, items[i])]
    IN  IF \E i \in 1..Len(items) : IsError(result[i]) THEN ConvError
        ELSE ListV(result)

\* the conversion of one pair with value_type(parsed_value) in place of the
\* strict tests: int() truncates a float and takes a bool
parse_pair_coercing(key_type, value_type, pair) ==
    LET eq == Find(pair, "=", 1)
        key == Strip(SubSeq(pair, 1, eq - 1))
        value == Strip(SubSeq(pair, eq + 1, Len(pair)))
        typed_key ==
            CASE key_type.k = "str" -> StrV(key)
              [] key_type.k = "int" -> IntOfStr(key)
              [] key_type.k = "float" -> FloatOfStr(key)
              [] key_type.k = "bool" -> BoolOf(StrV(key))
              [] OTHER -> ConvError
        evaluated == literal_eval(value)
        parsed_value == IF IsError(evaluated) THEN StrV(value) ELSE evaluated
        typed_value ==
            CASE value_type.k = "int" -> IntOf(parsed_value)
              [] value_type.k = "float" -> FloatOf(parsed_value)
              [] value_type.k = "bool" -> BoolOf(parsed_value)
              [] value_type.k = "str" -> StrV(value)
              [] OTHER -> ConvError
    IN  IF eq = 0 \/ IsError(typed_key) \/ IsError(typed_value) THEN ConvError
        ELSE [t |-> "pair", v |-> <<typed_key, typed_value>>]

\* the conversion of one key=value pair of the flat syntax: the typed key
\* and value, or ConvError (key and value kinds other than the scalar ones
\* are not converted by the model)
parse_pair(key_type, value_type, pair) ==
    LET eq == Find(pair, "=", 1)
        key == Strip(SubSeq(pair, 1, eq - 1))
        value == Strip(SubSeq(pair, eq + 1, Len(pair)))
        typed_key ==
            CASE key_type.k = "str" -> StrV(key)
              [] key_type.k = "int" -> IntOfStr(key)
              [] key_type.k = "float" -> FloatOfStr(key)
              [] key_type.k = "bool" -> BoolOf(StrV(key))
              [] OTHER -> ConvError
        evaluated == literal_eval(value)
        parsed_value == IF IsError(evaluated) THEN StrV(value) ELSE evaluated
        typed_value ==
            CASE value_type.k = "int" ->
                   IF parsed_value.t = "int" THEN parsed_value ELSE ConvError
              [] value_type.k = "float" ->
                   IF parsed_value.t \in {"int", "float"} THEN FloatOf(parsed_value)
                   ELSE ConvError
              [] value_type.k = "bool" ->
                   IF parsed_value.t = "bool" THEN parsed_value
                   ELSE strict_bool(value)
              [] value_type.k = "str" -> StrV(value)
              [] OTHER -> ConvError
    IN  IF eq = 0 \/ IsError(typed_key) \/ IsError(typed_value) THEN ConvError
        ELSE [t |-> "pair", v |-> <<typed_key, typed_value>>]

\* result[key] = value for the pairs in order: a later pair replaces an
\* earlier one with the same key.  A dict is a function from its keys to
\* its values
RECURSIVE dict_of_pairs(_)
dict_of_pairs(kvs) ==
    IF kvs = <<>> THEN <<>>
    ELSE LET last == kvs[Len(kvs)]
         IN  (last.v[1] :> last.v[2]) @@ dict_of_pairs(SubSeq(kvs, 1, Len(kvs) - 1))

\* the key=value branch of _dict_type_factory(dict_type).parse_dict
parse_flat_dict(dict_type, s) ==
    LET key_type == IF Len(dict_type.args) >= 1 THEN dict_type.args[1] ELSE T_str
        value_type == IF Len(dict_type.args) >= 2 THEN dict_type.args[2] ELSE T_str
        pairs == Items(s)
        kvs == [i \in 1..Len(pairs) |-> parse_pair(key_type, value_type, pairs[i])]
    IN  IF \E i \in 1..Len(pairs) : IsError(kvs[i]) THEN ConvError
        ELSE DictV(dict_of_pairs(kvs))

\* a JSON integer: digits, no leading zero unless it is "0"
IsJsonInt(u) == u # <<>> /\ AllDigits(u) /\ (u[1] # "0" \/ Len(u) = 1)

\* a JSON number with a fraction: an integer, a point, at least one digit
IsJsonFraction(u) ==
    LET i == Find(u, ".", 1)
    IN  /\ i > 1
        /\ i < Len(u)
        /\ IsJsonInt(SubSeq(u, 1, i - 1))
        /\ AllDigits(SubSeq(u, i + 1, Len(u)))

\* a JSON string without escapes
IsJsonString(u) ==
    /\ Len(u) >= 2
    /\ StartsWith(u, "\"") /\ EndsWith(u, "\"")
    /\ \A i \in 2..(Len(u) - 1) : u[i] \notin {"\"", "\\"}

\* the value of a JSON text u that is a number, a string, true, false or
\* null; ConvError (json.JSONDecodeError) for any other text
json_value(u) ==
    IF u = <<"t", "r", "u", "e">> THEN BoolV(TRUE)
    ELSE IF u = <<"f", "a", "l", "s", "e">> THEN BoolV(FALSE)
    ELSE IF u = <<"n", "u", "l", "l">> THEN NoneV
    ELSE IF IsJsonInt(u) THEN IntV(DecimalValue(u))
    ELSE IF IsJsonFraction(u) THEN PointNumber(u)
    ELSE IF IsJsonString(u) THEN StrV(Inside(u))
    ELSE ConvError

\* one "key": value member of a JSON object
json_member(m) ==
    LET i == Find(m, ":", 1)
        key == json_value(Strip(SubSeq(m, 1, i - 1)))
        value == json_value(Strip(SubSeq(m, i + 1, Len(m))))
    IN  IF i = 0 \/ IsError(key) \/ key.t # "str" \/ IsError(value) THEN ConvError
        ELSE [t |-> "pair", v |-> <<key, value>>]

\* json.loads(s) for a text s that is an object whose members are scalars,
\* with strings that hold no comma and no colon: the members in the order
\* of the text, or ConvError
json_loads(s) ==
    LET body == Strip(Inside(Strip(s)))
        pieces == Split(body, ",")
        members == [i \in 1..Len(pieces) |-> json_member(pieces[i])]
    IN  IF body = <<>> THEN [t |-> "object", v |-> <<>>]
        ELSE IF \E i \in 1..Len(pieces) : IsError(members[i]) THEN ConvError
        ELSE [t |-> "object", v |-> members]

\* the conversion of one member of the JSON object
typed_member(key_type, value_type, member) ==
    LET k == member.v[1]
        v == member.v[2]
        typed_key ==
            CASE key_type.k = "str" -> k
              [] key_type.k = "int" -> IntOfStr(k.v)
              [] key_type.k = "float" -> FloatOfStr(k.v)
              [] key_type.k = "bool" -> BoolOf(k)
              [] OTHER -> ConvError
        typed_value ==
            CASE value_type.k = "int" -> IF v.t = "int" THEN v ELSE ConvError
              [] value_type.k = "float" ->
                   IF v.t \in {"int", "float"} THEN FloatOf(v) ELSE ConvError
              [] value_type.k = "bool" -> IF v.t = "bool" THEN v ELSE ConvError
              [] value_type.k = "str" -> IF v.t = "str" THEN v ELSE ConvError
              [] OTHER -> ConvError
    IN  IF IsError(typed_key) \/ IsError(typed_value) THEN ConvError
        ELSE [t |-> "pair", v |-> <<typed_key, typed_value>>]

\* the JSON branch of parse_dict
parse_json_dict(dict_type, s) ==
    LET key_type == IF Len(dict_type.args) >= 1 THEN dict_type.args[1] ELSE T_str
        value_type == IF Len(dict_type.args) >= 2 THEN dict_type.args[2] ELSE T_str
        result == json_loads(s)
        kvs == [i \in 1..Len(result.v) |->
                   typed_member(key_type, value_type, result.v[i])]
    IN  IF IsError(result) THEN ConvError
        ELSE IF \E i \in 1..Len(result.v) : IsError(kvs[i]) THEN ConvError
        ELSE DictV(dict_of_pairs(kvs))

\* _dict_type_factory(dict_type).parse_dict
parse_dict(dict_type, s) ==
    IF Strip(s) = <<>> THEN DictV(<<>>)
    ELSE IF StartsWith(Strip(s), "{") /\ EndsWith(Strip(s), "}")
    THEN parse_json_dict(dict_type, s)
    ELSE parse_flat_dict(dict_type, s)


-----------------------------------------------------------------------------
(* Construction: the flags argparse knows after __init__.                  *)

\* the outcomes of a call
Returned(result) == [kind |-> "return", v |-> result]

\* parser.error(...): argparse prints the message and exits the process.
\* why is "argument" for a token argparse rejects and "missing" for required
\* fields; cls and names are the record and the flags the message names
SystemExit(why, cls, names) ==
    [kind |-> "SystemExit", v |-> [why |-> why, cls |-> cls, names |-> names]]

\* an exception that is a subclass of Exception, raised for the field at
Raised(exc, at) == [kind |-> "raise", v |-> [exc |-> exc, at |-> at]]

\* an outcome that ends the call, carried through the value computations
Abort(o) == [t |-> "abort", v |-> o]

IsAbort(x) == x.t = "abort"

\* key.startswith(prefix + ".") for dotted names
StartsWithDot(key, prefix) ==
    Len(key) > Len(prefix) /\ SubSeq(key, 1, Len(prefix)) = prefix

\* _add_fields_for_class and _add_field_argument: the dest and the type of
\* every flag added for cls under prefix, nested dataclasses expanded
RECURSIVE add_fields_for_class(_, _)
add_fields_for_class(cls, prefix) ==
    LET fs == fields(cls)
        one(f) ==
            LET arg_type == IF f.type.k = "Optional" THEN f.type.args[1] ELSE f.type
            IN  IF is_dataclass(arg_type)
                THEN add_fields_for_class(arg_type.cls, Append(prefix, f.name))
                ELSE {[dest |-> Append(prefix, f.name), type |-> arg_type]}
    IN  UNION {one(fs[i]) : i \in 1..Len(fs)}

\* an option string: "--" or "-" followed by a dotted name
long(name) == [dashes |-> "--", name |-> name]

short(name) == [dashes |-> "-", name |-> name]

\* action="store_true" in the place of a type: the flag takes no token
T_store_true == [k |-> "store_true", args |-> <<>>, cls |-> <<>>]

\* a class handed to the constructor where a value is expected
ClassV(cls) == [t |-> "type", v |-> cls]

\* the dest argparse gives an action: the name of its first long option
\* string, of its first option string if none is long
dest_of(names) ==
    IF \E i \in 1..Len(names) : names[i].dashes = "--"
    THEN names[CHOOSE i \in 1..Len(names) :
                  /\ names[i].dashes = "--"
                  /\ \A j \in 1..(i - 1) : names[j].dashes # "--"].name
    ELSE names[1].name

\* argparse.ArgumentParser(): -h and --help are registered, their dest is
\* not part of the namespace
ArgumentParser(dataclass_types) ==
    [t |-> "parser",
     dataclass_types |-> dataclass_types,
     config_dest |-> N_config,
     actions |-> {},
     flags |-> {},
     option_strings |-> {short(<<<<"h">>>>), long(<<<<"h", "e", "l", "p">>>>)}]

\* _add_config_argument: config_flag is one option string or a sequence of
\* them (their names hold no dot); parser.add_argument raises for an option
\* string that is registered already
add_config_argument(p, config_flag) ==
    IF config_flag.t = "type" THEN Abort(Raised("TypeError", <<>>))
    ELSE IF \E n \in {config_flag.v[i] : i \in 1..Len(config_flag.v)} :
                n \in p.option_strings
    THEN Abort(Raised("ArgumentError", <<>>))
    ELSE [p EXCEPT !.option_strings = @ \cup {config_flag.v[i] : i \in 1..Len(config_flag.v)},
                   !.config_dest = dest_of(config_flag.v)[1]]

\* add_flag that checks and registers the option strings one after the
\* other: those before the first conflict are registered when it raises
add_flag_one_by_one(p, names, type) ==
    IF \E i \in 1..Len(names) : names[i] \in p.option_strings
    THEN [self |-> [p EXCEPT !.option_strings =
                        @ \cup {names[j] : j \in {j \in 1..Len(names) :
                                   \A i \in 1..j : names[i] \notin p.option_strings}}],
          exc |-> "ValueError"]
    ELSE [self |-> [p EXCEPT !.option_strings = @ \cup {names[i] : i \in 1..Len(names)},
                             !.flags = @ \cup {[dest |-> dest_of(names), type |-> type]}],
          exc |-> ""]

\* add_flag(*names, **kwargs): self after the call and the exception the
\* call raised, "" if it returned.  type is the type= of the kwargs, or
\* T_store_true for action="store_true"
add_flag(p, names, type) ==
    IF \E i \in 1..Len(names) : names[i] \in p.option_strings
    THEN [self |-> p, exc |-> "ValueError"]
    ELSE [self |-> [p EXCEPT !.option_strings = @ \cup {names[i] : i \in 1..Len(names)},
                             !.flags = @ \cup {[dest |-> dest_of(names), type |-> type]}],
          exc |-> ""]

\* the loop of __init__ over flags, from item i on; added is what add_flag
\* did for item i
RECURSIVE add_flags(_, _, _)
add_flags_with(flags, i, added) ==
    IF added.exc # "" THEN Abort(Raised(added.exc, <<>>))
    ELSE add_flags(added.self, flags, i + 1)

add_flags(p, flags, i) ==
    IF i > Len(flags) THEN p
    ELSE add_flags_with(flags, i, add_flag(p, flags[i].names, flags[i].type))

\* _add_dataclass_arguments: a flag for every leaf of every dataclass
add_dataclass_arguments(p) ==
    LET leaves == UNION {add_fields_for_class(p.dataclass_types[i], <<p.dataclass_types[i]>>)
                             : i \in 1..Len(p.dataclass_types)}
    IN  IF \E a \in leaves : long(a.dest) \in p.option_strings
        THEN Abort(Raised("ArgumentError", <<>>))
        ELSE [p EXCEPT !.actions = leaves,
                       !.option_strings = @ \cup {long(a.dest) : a \in leaves}]

\* __init__ from _add_dataclass_arguments on: p is the parser with the
\* config flag and the custom flags
init_dataclasses(p) == IF IsAbort(p) THEN p ELSE add_dataclass_arguments(p)

\* __init__ from the flags on: p is the parser with the config flag
init_flags(p, flags) ==
    IF IsAbort(p) THEN p
    ELSE IF flags.t = "none" THEN add_dataclass_arguments(p)
    ELSE IF flags.t = "type" THEN Abort(Raised("TypeError", <<>>))
    ELSE init_dataclasses(add_flags(p, flags.v, 1))

\* __init__(*dataclass_types, flags=None, config_flag="--config"): the
\* parser object, or the exception the call raises.  keywords maps the
\* keywords of the call to their values; a keyword the signature does not
\* have is a TypeError of the call itself
DataclassArgParser_kw(dataclass_types, keywords) ==
    IF \E k \in DOMAIN keywords : k \notin {"flags", "config_flag"}
    THEN Abort(Raised("TypeError", <<>>))
    ELSE init_flags(add_config_argument(ArgumentParser(dataclass_types),
                                        IF "config_flag" \in DOMAIN keywords
                                        THEN keywords["config_flag"]
                                        ELSE TupleV(<<long(<<N_config>>)>>)),
                    IF "flags" \in DOMAIN keywords THEN keywords["flags"] ELSE NoneV)

\* DataclassArgParser(*dataclass_types)
DataclassArgParser(dataclass_types) == DataclassArgParser_kw(dataclass_types, <<>>)

\* the dests of the flags added for the dataclasses
Dests(p) == {a.dest : a \in p.actions}

\* the dests of the custom flags
FlagDests(p) == {f.dest : f \in p.flags}

TypeOfDest(p, d) == (CHOOSE a \in p.actions \cup p.flags : a.dest = d).type

\* type=str with choices= that compares the token in lower case
choice_any_case(choices, token) ==
    IF \E i \in 1..Len(choices) : choices[i] = StrV(Lower(token))
    THEN StrV(Lower(token)) ELSE ConvError

\* type=str with choices=choices of a Literal flag: argparse converts the
\* token with str and rejects a value that is not in choices
choice(choices, token) ==
    IF \E i \in 1..Len(choices) : choices[i] = StrV(token)
    THEN StrV(token) ELSE ConvError

\* the type= callable argparse applies to the token of a flag of type ty
\* (_get_basic_type_info, _try_add_generic_type_argument)
type_parser(ty, token) ==
    CASE ty.k = "int" -> IntOfStr(token)
      [] ty.k = "float" -> FloatOfStr(token)
      [] ty.k = "str" -> StrV(token)
      [] ty.k = "bool" -> strict_bool(token)
      [] ty.k = "tuple" -> parse_tuple(ty, token)
      [] ty.k = "list" -> parse_list(ty, token)
      [] ty.k = "dict" -> parse_dict(ty, token)
      [] ty.k = "Literal" -> choice(ty.args, token)
      [] OTHER -> ConvError

\* the dict of the parsed arguments, keyed by dest
Namespace(f) == [t |-> "namespace", v |-> f]

\* vars(self.parser.parse_args(args)): every dest with the decoded token of
\* its flag, None for a flag that is not on the command line; argparse exits
\* on a token its type= callable rejects.  cli maps the dests of the flags on
\* the command line to their tokens, config the token of the config flag
namespace_of(p, cli, config, decoded) ==
    IF \E d \in DOMAIN cli : IsError(decoded[d])
    THEN Abort(SystemExit("argument", <<>>, <<>>))
    ELSE Namespace([d \in Dests(p) \cup FlagDests(p) \cup {<<p.config_dest>>} |->
                      IF d = <<p.config_dest>> THEN config
                      ELSE IF d \in DOMAIN cli THEN decoded[d]
                      ELSE IF TypeOfDest(p, d).k = "store_true" THEN BoolV(FALSE)
                      ELSE NoneV])

parse_args(p, cli, config) ==
    namespace_of(p, cli, config,
                 [d \in DOMAIN cli |-> IF TypeOfDest(p, d).k = "store_true"
                                       THEN BoolV(TRUE)
                                       ELSE type_parser(TypeOfDest(p, d), cli[d])])

-----------------------------------------------------------------------------
(* Validation and type-specific handling of a resolved value.              *)

\* cls(**v) for a mapping v: the dataclass constructor
construct(cls, v) ==
    LET fs == fields(cls)
        given == {k.v : k \in DOMAIN v}
    IN  IF \/ \E k \in DOMAIN v : k.t # "str"
           \/ ~(given \subseteq FieldNames(cls))
           \/ \E i \in 1..Len(fs) : fs[i].dflt = "MISSING" /\ fs[i].name \notin given
        THEN Abort(Raised("TypeError", <<>>))
        ELSE InstV(cls, [n \in FieldNames(cls) |->
                            IF n \in given THEN v[StrV(n)] ELSE FieldOf(cls, n).value])

\* the tuple or the list of the elements built by _handle_field_type, or the
\* first exception a constructor raised
converted(kind, elems) ==
    IF \E i \in 1..Len(elems) : IsAbort(elems[i])
    THEN elems[CHOOSE i \in 1..Len(elems) :
                  /\ IsAbort(elems[i])
                  /\ \A j \in 1..(i - 1) : ~IsAbort(elems[j])]
    ELSE IF kind = "tuple" THEN TupleV(elems) ELSE ListV(elems)

\* _handle_field_type
handle_field_type(value, arg_type) ==
    IF /\ arg_type.k = "tuple"
       /\ \A i \in 1..Len(arg_type.args) : is_dataclass(arg_type.args[i])
    THEN IF value.t = "list" /\ Len(value.v) = Len(arg_type.args)
         THEN converted("tuple", [i \in 1..Len(value.v) |->
                                     IF value.v[i].t = "dict"
                                     THEN construct(arg_type.args[i].cls, value.v[i].v)
                                     ELSE value.v[i]])
         ELSE value
    ELSE IF /\ arg_type.k = "list"
            /\ Len(arg_type.args) = 1
            /\ is_dataclass(arg_type.args[1])
    THEN IF value.t = "list"
         THEN converted("list", [i \in 1..Len(value.v) |->
                                    IF value.v[i].t = "dict"
                                    THEN construct(arg_type.args[1].cls, value.v[i].v)
                                    ELSE value.v[i]])
         ELSE value
    ELSE value

\* only the first element is validated
FirstError_of_head(errs) == IF errs = <<>> THEN "" ELSE errs[1]

\* the first exception of a sequence of validations, "" if there is none
FirstError(errs) ==
    IF \A i \in 1..Len(errs) : errs[i] = "" THEN ""
    ELSE errs[CHOOSE i \in 1..Len(errs) :
                 errs[i] # "" /\ \A j \in 1..(i - 1) : errs[j] = ""]

\* _validate_type: the exception it raises ("TypeError", "ValueError"), ""
\* if it returns.  A dataclass type hint is a class, so the test "is a
\* dataclass and not a type" at the head of the code never holds and a value
\* for a dataclass hint passes every branch unchecked.
RECURSIVE validate_type(_, _)
validate_type(value, hint) ==
    LET arg_type == IF hint.k = "Optional" THEN hint.args[1] ELSE hint
    IN
    IF value = MISSING THEN ""
    ELSE IF hint.k = "Optional" /\ value = NoneV THEN ""
    ELSE CASE arg_type.k = "int" -> IF value.t = "int" THEN "" ELSE "TypeError"
           [] arg_type.k = "float" ->
                IF value.t \in {"int", "float"} THEN "" ELSE "TypeError"
           [] arg_type.k = "bool" -> IF value.t = "bool" THEN "" ELSE "TypeError"
           [] arg_type.k = "str" -> IF value.t = "str" THEN "" ELSE "TypeError"
           [] arg_type.k = "list" ->
                IF value.t # "list" THEN "TypeError"
                ELSE IF arg_type.args = <<>> \/ is_dataclass(arg_type.args[1]) THEN ""
                ELSE FirstError([i \in 1..Len(value.v) |->
                                    validate_type(value.v[i], arg_type.args[1])])
           [] arg_type.k = "tuple" ->
                IF value.t \notin {"list", "tuple"} THEN "TypeError"
                ELSE IF \/ arg_type.args = <<>>
                        \/ \A i \in 1..Len(arg_type.args) : is_dataclass(arg_type.args[i])
                THEN ""
                ELSE IF Len(value.v) # Len(arg_type.args) THEN "ValueError"
                ELSE FirstError([i \in 1..Len(value.v) |->
                                    IF is_dataclass(arg_type.args[i]) THEN ""
                                    ELSE validate_type(value.v[i], arg_type.args[i])])
           [] arg_type.k = "dict" ->
                IF value.t # "dict" THEN "TypeError"
                ELSE IF arg_type.args = <<>> THEN ""
                ELSE LET bad == {k \in DOMAIN value.v :
                                    \/ validate_type(k, arg_type.args[1]) # ""
                                    \/ validate_type(value.v[k], arg_type.args[2]) # ""}
                     IN  IF bad = {} THEN ""
                         ELSE LET k == CHOOSE k \in bad : TRUE
                              IN  IF validate_type(k, arg_type.args[1]) # ""
                                  THEN validate_type(k, arg_type.args[1])
                                  ELSE validate_type(value.v[k], arg_type.args[2])
           [] arg_type.k = "Literal" ->
                IF \E i \in 1..Len(arg_type.args) : arg_type.args[i] = value
                THEN "" ELSE "ValueError"
           [] OTHER -> ""


-----------------------------------------------------------------------------
(* Resolution of the fields and assembly of the instances.                 *)

\* config_has_override of _resolve_field_value
RECURSIVE config_has_override(_)
config_has_override(cfg) ==
    IF cfg.t = "dict"
    THEN IF DOMAIN cfg.v # {} THEN TRUE
         ELSE \E k \in DOMAIN cfg.v : config_has_override(cfg.v[k])
    ELSE FALSE

\* the default step of the resolution: field.default, field.default_factory()
\* or MISSING
default_of(f) == IF f.dflt = "MISSING" THEN MISSING ELSE f.value

\* d.get(key, {}) of a dict d
get_or_empty(d, key) == IF StrV(key) \in DOMAIN d.v THEN d.v[StrV(key)] ELSE DictV(<<>>)

\* _merge_nested: the instance, or the outcome that ends the call.  The loop
\* over the fields is merge_fields, from field i on with the values and the
\* missing flags collected so far; merge_field is the if/elif chain of one
\* pass, which yields the value of the field, MISSING for a field it reports
\* as missing, or the outcome that ends the call
RECURSIVE merge_nested(_, _, _, _)
RECURSIVE merge_fields(_, _, _, _, _, _, _)
\* the branches of _merge_nested with one more before the last: a field
\* without a default of its own takes the value the default instance of the
\* enclosing field of the registered record holds for it
merge_field_from_parent_default(f, k_cli, config_nested, parsed_args) ==
    IF k_cli \in DOMAIN parsed_args /\ parsed_args[k_cli] # NoneV
    THEN parsed_args[k_cli]
    ELSE IF \E key \in DOMAIN parsed_args : StartsWithDot(key, k_cli)
    THEN IF config_nested.t # "dict"
         THEN Abort(Raised("AttributeError", k_cli))
         ELSE IF ~is_dataclass(f.type)
         THEN Abort(Raised("TypeError", k_cli))
         ELSE merge_nested(f.type.cls, k_cli, get_or_empty(config_nested, f.name),
                           parsed_args)
    ELSE IF config_nested.t = "dict" /\ StrV(f.name) \in DOMAIN config_nested.v
    THEN config_nested.v[StrV(f.name)]
    ELSE IF f.dflt # "MISSING"
    THEN f.value
    ELSE IF Len(k_cli) = 3 /\ FieldOf(k_cli[1], k_cli[2]).dflt # "MISSING"
    THEN FieldOf(k_cli[1], k_cli[2]).value.v.fields[k_cli[3]]
    ELSE MISSING

merge_field(f, k_cli, config_nested, parsed_args) ==
    IF k_cli \in DOMAIN parsed_args /\ parsed_args[k_cli] # NoneV
    THEN parsed_args[k_cli]
    ELSE IF \E key \in DOMAIN parsed_args : StartsWithDot(key, k_cli)
    THEN IF config_nested.t # "dict"
         THEN Abort(Raised("AttributeError", k_cli))
         ELSE IF ~is_dataclass(f.type)
         THEN Abort(Raised("TypeError", k_cli))
         ELSE merge_nested(f.type.cls, k_cli, get_or_empty(config_nested, f.name),
                           parsed_args)
    ELSE IF config_nested.t = "dict" /\ StrV(f.name) \in DOMAIN config_nested.v
    THEN config_nested.v[StrV(f.name)]
    ELSE IF f.dflt # "MISSING"
    THEN f.value
    ELSE MISSING

\* the end of one pass of the loop: val goes to the keyword arguments or the
\* flag to the missing ones
merge_fields_with(cls_nested, prefix_nested, config_nested, parsed_args, i, vals, missing_fields, val) ==
    IF IsAbort(val) THEN val
    ELSE IF val = MISSING
    THEN merge_fields(cls_nested, prefix_nested, config_nested, parsed_args, i + 1, vals,
                      Append(missing_fields,
                             Append(prefix_nested, fields(cls_nested)[i].name)))
    ELSE merge_fields(cls_nested, prefix_nested, config_nested, parsed_args, i + 1,
                      (fields(cls_nested)[i].name :> val) @@ vals, missing_fields)

merge_fields(cls_nested, prefix_nested, config_nested, parsed_args, i, vals, missing_fields) ==
    IF i > Len(fields(cls_nested))
    THEN IF missing_fields # <<>>
         THEN Abort(SystemExit("missing", cls_nested, missing_fields))
         ELSE InstV(cls_nested, vals)
    ELSE merge_fields_with(cls_nested, prefix_nested, config_nested, parsed_args, i, vals,
                           missing_fields,
                           merge_field(fields(cls_nested)[i],
                                       Append(prefix_nested, fields(cls_nested)[i].name),
                                       config_nested, parsed_args))

\* _merge_nested that is handed an empty mapping in place of the nested
\* part of the configuration file
merge_nested_without_config(cls_nested, prefix_nested, config_nested, parsed_args) ==
    merge_fields(cls_nested, prefix_nested, DictV(<<>>), parsed_args, 1, <<>>, <<>>)

merge_nested(cls_nested, prefix_nested, config_nested, parsed_args) ==
    merge_fields(cls_nested, prefix_nested, config_nested, parsed_args, 1, <<>>, <<>>)

\* _resolve_field_value with steps 2 and 3 exchanged: the configuration file
\* is applied after the command line
resolve_field_value_file_last(field, arg_key, arg_type, config_section, parsed_args) ==
    LET default == default_of(field)
        from_cli == IF arg_key \in DOMAIN parsed_args /\ parsed_args[arg_key] # NoneV
                    THEN parsed_args[arg_key]
                    ELSE default
        value == IF StrV(field.name) \in DOMAIN config_section.v
                 THEN config_section.v[StrV(field.name)]
                 ELSE from_cli
        nested_config == get_or_empty(config_section, field.name)
        has_override ==
            \/ \E key \in DOMAIN parsed_args :
                   StartsWithDot(key, arg_key) /\ parsed_args[key] # NoneV
            \/ config_has_override(nested_config)
    IN  IF is_dataclass(arg_type) /\ has_override
        THEN merge_nested(arg_type.cls, arg_key, nested_config, parsed_args)
        ELSE value

\* _resolve_field_value that takes an entry of None in the configuration
\* file as no entry, as it takes a None of the command line
resolve_field_value_file_none_skipped(field, arg_key, arg_type, config_section, parsed_args) ==
    LET default == default_of(field)
        from_config == IF /\ StrV(field.name) \in DOMAIN config_section.v
                          /\ config_section.v[StrV(field.name)] # NoneV
                       THEN config_section.v[StrV(field.name)]
                       ELSE default
        value == IF arg_key \in DOMAIN parsed_args /\ parsed_args[arg_key] # NoneV
                 THEN parsed_args[arg_key]
                 ELSE from_config
        nested_config == get_or_empty(config_section, field.name)
        has_override ==
            \/ \E key \in DOMAIN parsed_args :
                   StartsWithDot(key, arg_key) /\ parsed_args[key] # NoneV
            \/ config_has_override(nested_config)
    IN  IF is_dataclass(arg_type) /\ has_override
        THEN merge_nested(arg_type.cls, arg_key, nested_config, parsed_args)
        ELSE value

\* _resolve_field_value: the value, or the outcome that ends the call
resolve_field_value(field, arg_key, arg_type, config_section, parsed_args) ==
    LET default == default_of(field)
        from_config == IF StrV(field.name) \in DOMAIN config_section.v
                       THEN config_section.v[StrV(field.name)]
                       ELSE default
        value == IF arg_key \in DOMAIN parsed_args /\ parsed_args[arg_key] # NoneV
                 THEN parsed_args[arg_key]
                 ELSE from_config
        nested_config == get_or_empty(config_section, field.name)
        has_override ==
            \/ \E key \in DOMAIN parsed_args :
                   StartsWithDot(key, arg_key) /\ parsed_args[key] # NoneV
            \/ config_has_override(nested_config)
    IN  IF is_dataclass(arg_type) /\ has_override
        THEN merge_nested(arg_type.cls, arg_key, nested_config, parsed_args)
        ELSE value

\* _build_instance: the instance, or the outcome that ends the call.  The
\* loop over the fields is build_fields, from field i on with the values and
\* the missing flags collected so far; one pass resolves the field, applies
\* _handle_field_type, validates, and collects the value
RECURSIVE build_fields(_, _, _, _, _, _, _)

\* the end of a pass with parser.error called inside the loop, at the first
\* field that is missing
build_field_fail_fast(cls, parsed_args, config_section, prefix, i, values, missing_fields, value, exc) ==
    IF exc # "" THEN Abort(Raised(exc, Append(prefix, fields(cls)[i].name)))
    ELSE IF value = MISSING
    THEN Abort(SystemExit("missing", cls, <<Append(prefix, fields(cls)[i].name)>>))
    ELSE build_fields(cls, parsed_args, config_section, prefix, i + 1,
                      (fields(cls)[i].name :> value) @@ values, missing_fields)

\* the end of a pass: exc is what _validate_type raised for value
build_field_validated(cls, parsed_args, config_section, prefix, i, values, missing_fields, value, exc) ==
    IF exc # "" THEN Abort(Raised(exc, Append(prefix, fields(cls)[i].name)))
    ELSE IF value = MISSING
    THEN build_fields(cls, parsed_args, config_section, prefix, i + 1, values,
                      Append(missing_fields, Append(prefix, fields(cls)[i].name)))
    ELSE build_fields(cls, parsed_args, config_section, prefix, i + 1,
                      (fields(cls)[i].name :> value) @@ values, missing_fields)

\* the pass from _validate_type on: value is what _handle_field_type gave
build_field_handled(cls, parsed_args, config_section, prefix, i, values, missing_fields, value) ==
    IF IsAbort(value) THEN value
    ELSE build_field_validated(cls, parsed_args, config_section, prefix, i, values,
                               missing_fields, value,
                               validate_type(value, fields(cls)[i].type))

\* the pass from _handle_field_type on: resolved is what _resolve_field_value
\* gave
build_field_resolved(cls, parsed_args, config_section, prefix, i, values, missing_fields, resolved) ==
    IF IsAbort(resolved) THEN resolved
    ELSE build_field_handled(cls, parsed_args, config_section, prefix, i, values,
                             missing_fields,
                             handle_field_type(resolved, fields(cls)[i].type))

build_fields(cls, parsed_args, config_section, prefix, i, values, missing_fields) ==
    IF i > Len(fields(cls))
    THEN IF missing_fields # <<>>
         THEN Abort(SystemExit("missing", cls, missing_fields))
         ELSE InstV(cls, values)
    ELSE build_field_resolved(cls, parsed_args, config_section, prefix, i, values,
                              missing_fields,
                              resolve_field_value(fields(cls)[i],
                                                  Append(prefix, fields(cls)[i].name),
                                                  fields(cls)[i].type, config_section,
                                                  parsed_args))

build_instance(cls, parsed_args, config_data) ==
    build_fields(cls, parsed_args, get_or_empty(config_data, cls), <<cls>>, 1, <<>>, <<>>)

-----------------------------------------------------------------------------
(* The configuration file and the two entry points.                        *)

\* no --config on the command line
NoConfig == [given |-> FALSE, exists |-> FALSE, ext |-> "", valid |-> FALSE,
             data |-> DictV(<<>>)]

\* --config FILE: whether FILE exists, its extension (lower case), whether
\* its text is valid for the format, and the mapping it holds
ConfigFile(exists, ext, valid, data) ==
    [given |-> TRUE, exists |-> exists, ext |-> ext, valid |-> valid, data |-> data]

\* PyYAML is installed
HAS_YAML == TRUE

\* _load_config_file: the mapping, or the exception it raises
load_config_file(file) ==
    IF ~file.exists THEN Abort(Raised("FileNotFoundError", <<>>))
    ELSE IF file.ext \in {".yaml", ".yml"}
    THEN IF ~HAS_YAML THEN Abort(Raised("ValueError", <<>>))
         ELSE IF file.valid THEN file.data ELSE Abort(Raised("ValueError", <<>>))
    ELSE IF file.ext = ".json"
    THEN IF file.valid THEN file.data ELSE Abort(Raised("ValueError", <<>>))
    ELSE Abort(Raised("ValueError", <<>>))

\* the loop of parse over self.dataclass_types, from type i on; instance is
\* what _build_instance gave for type i
RECURSIVE build_all(_, _, _, _, _)
build_all_with(p, parsed_args, config_data, i, result, instance) ==
    IF IsAbort(instance) THEN instance.v
    ELSE build_all(p, parsed_args, config_data, i + 1,
                   (<<p.dataclass_types[i]>> :> instance) @@ result)

build_all(p, parsed_args, config_data, i, result) ==
    IF i > Len(p.dataclass_types) THEN Returned(result)
    ELSE build_all_with(p, parsed_args, config_data, i, result,
                        build_instance(p.dataclass_types[i], parsed_args, config_data))

\* the end of parse: the custom flags are added to the instances built
parse_result(p, parsed_args, built) ==
    LET dataclass_field_names ==
            UNION {{<<p.dataclass_types[i], f>> : f \in FieldNames(p.dataclass_types[i])}
                       : i \in 1..Len(p.dataclass_types)}
        custom == {key \in DOMAIN parsed_args :
                       key \notin dataclass_field_names /\ key # <<p.config_dest>>}
    IN  IF built.kind # "return" THEN built
        ELSE Returned([key \in DOMAIN built.v \cup custom |->
                          IF key \in custom THEN parsed_args[key] ELSE built.v[key]])

\* parse from the loop over the dataclasses on: config_data is what the
\* configuration file gave
parse_with_config(p, parsed_args, config_data) ==
    IF IsAbort(config_data) THEN config_data.v
    ELSE parse_result(p, parsed_args, build_all(p, parsed_args, config_data, 1, <<>>))

\* parse from the configuration file on: ns is what parse_args gave
parse_with_namespace(p, file, ns) ==
    IF IsAbort(ns) THEN ns.v
    ELSE parse_with_config(p, ns.v,
                           IF file.given THEN load_config_file(file) ELSE DictV(<<>>))

\* parse: the outcome of the call.  The keys of the result are dotted names
parse(p, cli, file) ==
    parse_with_namespace(p, file,
                         parse_args(p, cli, IF file.given THEN StrV(<<"f">>) ELSE NoneV))

\* safe_parse after parse: Ok(result), Err(str(e)) for an exception that is
\* an Exception; SystemExit is not one and leaves the call as it left parse
safe_parse_result(o) ==
    CASE o.kind = "return" -> [kind |-> "Ok", v |-> o.v]
      [] o.kind = "raise" -> [kind |-> "Err", v |-> o.v]
      [] OTHER -> o

safe_parse(p, cli, file) == safe_parse_result(parse(p, cli, file))


-----------------------------------------------------------------------------
(* The inputs of a call.                                                   *)

\* at most MaxCli flags are on the command line of a call
MaxCli == 2

\* at most MaxFile entries are in a mapping of the configuration file
MaxFile == 2

\* the sequences over S of length at most n
SeqsUpTo(S, n) == UNION {[1..k -> S] : k \in 0..n}

Subsets(S, n) == {T \in SUBSET S : Cardinality(T) <= n}

\* the functions on S that map every s to an element of choices[s]
RECURSIVE DependentFunctions(_, _)
DependentFunctions(S, choices) ==
    IF S = {} THEN {<<>>}
    ELSE LET s == CHOOSE s \in S : TRUE
         IN  {(s :> x) @@ g : x \in choices[s], g \in DependentFunctions(S \ {s}, choices)}

\* tokens for a flag of the type ty: tokens the decoder accepts and tokens
\* it rejects
Tokens(ty) ==
    CASE ty.k = "int" -> {<<"4", "2">>, <<"1", ".", "5">>}
      [] ty.k = "float" -> {<<"2", ".", "5">>, <<"7">>}
      [] ty.k = "str" -> {<<"b", "a", "r">>}
      [] ty.k = "bool" -> {<<"t", "r", "u", "e">>, <<"y", "e", "s">>}
      [] ty.k = "tuple" -> {<<"4", ",", "5", ",", "6">>, <<"b", ",", "7">>}
      [] ty.k = "dict" -> {<<"k", "=", "1">>}
      [] ty.k = "store_true" -> {<<>>}
      [] OTHER -> {}

\* the command lines for the parser p: the tokens of the flags given
CliInputs(p) ==
    LET tokensOf == [d \in Dests(p) \cup FlagDests(p) |-> Tokens(TypeOfDest(p, d))]
    IN  UNION {DependentFunctions(S, tokensOf)
                   : S \in Subsets(Dests(p) \cup FlagDests(p), MaxCli)}

\* values a JSON file can hold for a scalar field: of the declared type and
\* of the other types
ScalarValues ==
    {IntV(1), FloatV(15, 1), BoolV(TRUE), StrV(<<"t", "r", "u", "e">>)}

\* values a JSON file can hold for a field of a nested record: one of the
\* declared type, one of another type
NestedScalarValues(ty) ==
    CASE ty.k = "int" -> {IntV(5), StrV(<<"h", "i">>)}
      [] ty.k = "float" -> {FloatV(25, 1), StrV(<<"h", "i">>)}
      [] ty.k = "str" -> {StrV(<<"h", "i">>), IntV(5)}
      [] ty.k = "bool" -> {BoolV(TRUE), IntV(5)}
      [] OTHER -> {}

\* the mappings a JSON file can hold as the elements of a sequence of Inner
\* records: of some of the fields, and one with a key that is no field
RecordMappings ==
    {DictV((StrV(N_x) :> IntV(10)) @@ (StrV(N_y) :> StrV(<<"a">>))),
     DictV(StrV(N_x) :> IntV(20)),
     DictV(StrV(<<"w">>) :> IntV(1))}

\* the mappings a JSON file can hold for the record type cls at the nesting
\* depth: a mapping of some of the field names to values, a mapping for a
\* nested record, or a value that is not a mapping in its place
RECURSIVE Sections(_, _)
Sections(cls, depth) ==
    LET vals(n) ==
            LET ty == FieldOf(cls, n).type
            IN  CASE ty.k = "Optional" ->
                       {NoneV} \cup (IF depth = 0 /\ Len(fields(cls)) >= 3
                                     THEN ScalarValues ELSE NestedScalarValues(ty.args[1]))
                  [] is_dataclass(ty) -> Sections(ty.cls, depth + 1) \cup {IntV(7)}
                  [] ty.k \in {"tuple", "list"} /\ is_dataclass(ty.args[1]) ->
                       {ListV(s) : s \in SeqsUpTo(RecordMappings, MaxFile)}
                       \cup {ListV(<<DictV(StrV(N_x) :> IntV(10)), IntV(5)>>), IntV(7)}
                  [] ty.k = "tuple" ->
                       {ListV(<<IntV(4), IntV(5), IntV(6)>>),
                        ListV(<<StrV(<<"b">>), FloatV(7, 0)>>),
                        ListV(<<IntV(4)>>)}
                  [] ty.k = "dict" ->
                       {DictV(StrV(<<"k">>) :> IntV(1)),
                        DictV(StrV(<<"k">>) :> StrV(<<"v">>))}
                  [] OTHER -> IF depth = 0 /\ Len(fields(cls)) >= 3
                              THEN ScalarValues ELSE NestedScalarValues(ty)
        valsOf == [n \in FieldNames(cls) |-> vals(n)]
    IN  {DictV(m) : m \in UNION {DependentFunctions({StrV(n) : n \in S},
                                                    [k \in {StrV(n) : n \in S} |-> valsOf[k.v]])
                                    : S \in Subsets(FieldNames(cls), MaxFile)}}

\* the configuration files for the parser p: none, one that cannot be
\* loaded, or a JSON file with a section for its first record type
FileInputs(p) ==
    {NoConfig,
     ConfigFile(FALSE, ".json", FALSE, DictV(<<>>)),
     ConfigFile(TRUE, ".txt", TRUE, DictV(<<>>)),
     ConfigFile(TRUE, ".json", FALSE, DictV(<<>>)),
     ConfigFile(TRUE, ".json", TRUE, DictV(<<>>)),
     ConfigFile(TRUE, ".yaml", TRUE, DictV(<<>>)),
     ConfigFile(TRUE, ".yaml", FALSE, DictV(<<>>))}
    \cup {ConfigFile(TRUE, ".json", TRUE, DictV(StrV(p.dataclass_types[1]) :> s)) :
              s \in Sections(p.dataclass_types[1], 0)}

-----------------------------------------------------------------------------
(* The state machine: a parser is constructed, then called once.           *)

NoOutcome == [kind |-> "none", v |-> <<>>]

\* the parsers of the test suite
Parsers ==
    {DataclassArgParser(<<c>>) :
        c \in {N_BasicTypesConfig, N_RequiredFieldsConfig, N_Outer, N_SecondaryOuter,
               N_OuterWithFactory, N_TupleConfig, N_DictTypesConfig}}

Init ==
    /\ parser \in Parsers
    /\ args = <<>>
    /\ cfgfile = NoConfig
    /\ call = "none"
    /\ outcome = NoOutcome
    /\ orig = NoOutcome

\* parser.parse(args)
Parse ==
    /\ call = "none"
    /\ \E cli \in CliInputs(parser), file \in FileInputs(parser) :
          /\ args' = cli
          /\ cfgfile' = file
          /\ outcome' = parse(parser, cli, file)
    /\ call' = "parse"
    /\ UNCHANGED <<parser, orig>>

\* parser.safe_parse(args)
SafeParse ==
    /\ call = "none"
    /\ \E cli \in CliInputs(parser), file \in FileInputs(parser) :
          /\ args' = cli
          /\ cfgfile' = file
          /\ outcome' = safe_parse(parser, cli, file)
    /\ call' = "safe_parse"
    /\ UNCHANGED <<parser, orig>>

\* the configuration file that holds the field values of a result: a nested
\* record as a nested mapping, a tuple or a list as a sequence
RECURSIVE Serialize(_)
Serialize(value) ==
    CASE value.t = "instance" ->
           DictV([k \in {StrV(n) : n \in DOMAIN value.v.fields} |->
                     Serialize(value.v.fields[k.v])])
      [] value.t \in {"tuple", "list"} ->
           ListV([i \in 1..Len(value.v) |-> Serialize(value.v[i])])
      [] value.t = "dict" -> DictV([k \in DOMAIN value.v |-> Serialize(value.v[k])])
      [] OTHER -> value

\* the file with a section for every record of the result of p
SerializeResult(p, result) ==
    ConfigFile(TRUE, ".json", TRUE,
               DictV([k \in {StrV(p.dataclass_types[i]) : i \in 1..Len(p.dataclass_types)}
                         |-> Serialize(result[<<k.v>>])]))

\* the result of a parse is written to a file and parser.parse is called
\* with that file and nothing else on the command line
RoundTrip ==
    /\ call = "parse"
    /\ outcome.kind = "return"
    /\ orig' = outcome
    /\ args' = <<>>
    /\ cfgfile' = SerializeResult(parser, outcome.v)
    /\ outcome' = parse(parser, <<>>, SerializeResult(parser, outcome.v))
    /\ call' = "roundtrip"
    /\ UNCHANGED parser

Next == Parse \/ SafeParse \/ RoundTrip

Spec == Init /\ [][Next]_vars

-----------------------------------------------------------------------------
(* The decoders under many tokens: a parser for one record type is called  *)
(* once with one flag on the command line.                                 *)

\* the tokens have at most MaxTokLen characters of a small alphabet
MaxTokLen == 3

\* a tuple token has at most MaxSegs comma-separated segments
MaxSegs == 3

\* a dict token has at most MaxPairs comma-separated entries
MaxPairs == 2

\* ",".join(pieces)
RECURSIVE Join(_)
Join(pieces) ==
    IF pieces = <<>> THEN <<>>
    ELSE IF Len(pieces) = 1 THEN pieces[1]
    ELSE pieces[1] \o <<",">> \o Join(Tail(pieces))

\* the spellings of a word in upper and lower case letters
Upper(c) ==
    CASE c = "t" -> "T" [] c = "r" -> "R" [] c = "u" -> "U" [] c = "e" -> "E"
      [] c = "f" -> "F" [] c = "a" -> "A" [] c = "l" -> "L" [] c = "s" -> "S"
      [] OTHER -> c

CaseVariants(word) ==
    {[i \in 1..Len(word) |-> IF i \in S THEN Upper(word[i]) ELSE word[i]] :
        S \in SUBSET (1..Len(word))}

\* tokens for a bool flag: every spelling of true and false, every short
\* string of digits, a letter and space, and words
BoolTokens ==
    CaseVariants(<<"t", "r", "u", "e">>) \cup CaseVariants(<<"f", "a", "l", "s", "e">>)
    \cup SeqsUpTo({"0", "1", "y", " "}, MaxTokLen)
    \cup {<<"y", "e", "s">>, <<"n", "o">>, <<"m", "a", "y", "b", "e">>, <<"o", "n">>}

\* the segments of the tuple tokens
TupleSegments == {<<"1">>, <<" ", "2", " ">>, <<>>, <<"b">>, <<"1", ".", "5">>}

\* tokens for a tuple flag: segments joined by commas, bare, in parentheses
\* or with the opening one alone
TupleTokens ==
    UNION {{Join(segs), <<"(">> \o Join(segs) \o <<")">>, <<"(">> \o Join(segs)} :
               segs \in SeqsUpTo(TupleSegments, MaxSegs)}

\* the entries of the dict tokens in the key=value syntax
DictEntries ==
    {<<"k", "=", "1">>, <<"j", "=", "2">>, <<" ", "k", " ", "=", " ", "3", " ">>,
     <<"k", "=", "1", ".", "5">>, <<"k", "=", "T", "r", "u", "e">>,
     <<"k", "=", "a", "b", "c">>, <<"k">>, <<>>}

\* dict tokens in the JSON syntax
JsonTokens ==
    {<<"{", "}">>,
     <<"{", "\"", "k", "\"", ":", " ", "1", "}">>,
     <<"{", "\"", "k", "\"", ":", " ", "1", ".", "5", "}">>,
     <<"{", "\"", "k", "\"", ":", " ", "t", "r", "u", "e", "}">>,
     <<"{", "\"", "k", "\"", ":", " ", "\"", "a", "\"", "}">>,
     <<"{", "\"", "k", "\"", ":", "1", ",", "\"", "j", "\"", ":", "2", "}">>,
     <<"{", "\"", "k", "\"", " ", "1", "}">>,
     <<"{", "k", ":", "1", "}">>}

\* tokens for a dict flag
DictTokens == {Join(entries) : entries \in SeqsUpTo(DictEntries, MaxPairs)} \cup JsonTokens

InitOf(cls) ==
    /\ parser = DataclassArgParser(<<cls>>)
    /\ args = <<>>
    /\ cfgfile = NoConfig
    /\ call = "none"
    /\ outcome = NoOutcome
    /\ orig = NoOutcome

\* parser.parse(["--" + dest, token])
ParseToken(dest, token) ==
    /\ call = "none"
    /\ args' = (dest :> token)
    /\ cfgfile' = NoConfig
    /\ outcome' = parse(parser, (dest :> token), NoConfig)
    /\ call' = "parse"
    /\ UNCHANGED <<parser, orig>>

InitBool == InitOf(N_BasicTypesConfig)

ParseBool == \E token \in BoolTokens : ParseToken(<<N_BasicTypesConfig, N_bool_field>>, token)

NextBool == ParseBool

SpecBool == InitBool /\ [][NextBool]_vars

InitTuple == InitOf(N_TupleConfig)

ParseTuple == \E dest \in Dests(parser), token \in TupleTokens : ParseToken(dest, token)

NextTuple == ParseTuple

SpecTuple == InitTuple /\ [][NextTuple]_vars

InitDict == InitOf(N_DictTypesConfig)

ParseDict == \E dest \in Dests(parser), token \in DictTokens : ParseToken(dest, token)

NextDict == ParseDict

SpecDict == InitDict /\ [][NextDict]_vars


-----------------------------------------------------------------------------
(* Sequences of records: a parser for a record type with a list or a tuple *)
(* of records is called once.                                              *)

InitRecords ==
    /\ parser \in {DataclassArgParser(<<N_OuterWithList>>),
                   DataclassArgParser(<<N_OuterWithTuple>>)}
    /\ args = <<>>
    /\ cfgfile = NoConfig
    /\ call = "none"
    /\ outcome = NoOutcome
    /\ orig = NoOutcome

NextRecords == Parse

SpecRecords == InitRecords /\ [][NextRecords]_vars

-----------------------------------------------------------------------------
(* Literal fields: a parser for SampleConfig is called once, with a token  *)
(* for the Literal flag or with a file that has a value for the field.     *)

\* tokens for the Literal flag: every spelling of the literals, and short
\* strings of their letters
LiteralTokens ==
    CaseVariants(S_fast) \cup CaseVariants(S_slow)
    \cup SeqsUpTo({"f", "a", "s", "t"}, MaxTokLen)
    \cup {<<" ", "f", "a", "s", "t">>, <<"f", "a", "s", "t", "e", "r">>}

\* the values a file holds for the field: strings, and values of other types
LiteralFileValues ==
    {StrV(token) : token \in LiteralTokens}
    \cup {IntV(1), BoolV(TRUE), NoneV, ListV(<<StrV(S_fast)>>)}

InitLiteral == InitOf(N_SampleConfig)

ParseLiteral == \E token \in LiteralTokens : ParseToken(<<N_SampleConfig, N_mode>>, token)

\* parser.parse(["--config", file]) with a file that sets the field
LoadLiteral ==
    /\ call = "none"
    /\ \E value \in LiteralFileValues :
         \E file \in {ConfigFile(TRUE, ".json", TRUE,
                                 DictV(StrV(N_SampleConfig) :> DictV(StrV(N_mode) :> value)))} :
          /\ cfgfile' = file
          /\ outcome' = parse(parser, <<>>, file)
    /\ args' = <<>>
    /\ call' = "parse"
    /\ UNCHANGED <<parser, orig>>

NextLiteral == ParseLiteral \/ LoadLiteral

SpecLiteral == InitLiteral /\ [][NextLiteral]_vars

-----------------------------------------------------------------------------
(* Optional fields: a parser for a record type with Optional fields is     *)
(* called once.                                                            *)

InitOptional ==
    /\ parser \in {DataclassArgParser(<<N_OptionalFieldsConfig>>),
                   DataclassArgParser(<<N_OptionalWithDefaultsConfig>>)}
    /\ args = <<>>
    /\ cfgfile = NoConfig
    /\ call = "none"
    /\ outcome = NoOutcome
    /\ orig = NoOutcome

NextOptional == Parse

SpecOptional == InitOptional /\ [][NextOptional]_vars

-----------------------------------------------------------------------------
(* List fields: a parser for a record type with list fields is called with *)
(* a token for one of its flags, and then with the same token in square    *)
(* brackets.                                                               *)

\* the segments of the list tokens
ListSegments == {<<"1">>, <<" ", "2", " ">>, <<>>, <<"b">>, <<"[", "1", "]">>}

\* tokens for a list flag: segments joined by commas, bare, with the
\* opening bracket alone or with the closing one alone
ListTokens ==
    UNION {{Join(segs), <<"[">> \o Join(segs), Join(segs) \o <<"]">>} :
               segs \in SeqsUpTo(ListSegments, MaxSegs)}

InitList == InitOf(N_ListConfig)

ParseList == \E dest \in Dests(parser), token \in ListTokens : ParseToken(dest, token)

\* parser.parse(["--" + dest, "[" + token + "]"]) for the dest and the token
\* of the call before
ParseListInBrackets ==
    /\ call = "parse"
    /\ \E dest \in DOMAIN args :
          /\ args' = (dest :> (<<"[">> \o args[dest] \o <<"]">>))
          /\ outcome' = parse(parser, (dest :> (<<"[">> \o args[dest] \o <<"]">>)), NoConfig)
    /\ orig' = outcome
    /\ call' = "parse_in_brackets"
    /\ UNCHANGED <<parser, cfgfile>>

NextList == ParseList \/ ParseListInBrackets

SpecList == InitList /\ [][NextList]_vars

-----------------------------------------------------------------------------
(* Records nested two levels deep: a parser for Top or SecondaryOuter is   *)
(* called once.                                                            *)

InitDeep ==
    /\ parser \in {DataclassArgParser(<<N_Top>>), DataclassArgParser(<<N_SecondaryOuter>>)}
    /\ args = <<>>
    /\ cfgfile = NoConfig
    /\ call = "none"
    /\ outcome = NoOutcome
    /\ orig = NoOutcome

NextDeep == Parse

SpecDeep == InitDeep /\ [][NextDeep]_vars

-----------------------------------------------------------------------------
(* The two syntaxes of a dict token: a parser for a record type with dict  *)
(* fields is called with entries in the key=value syntax, and then with    *)
(* the same keys and literals as a JSON object.                            *)

\* literals that both syntaxes read
DictLiterals ==
    {<<"1">>, <<"0">>, <<"2">>, <<"1", ".", "5">>, <<"t", "r", "u", "e">>,
     <<"f", "a", "l", "s", "e">>}

\* the keys of the entries, by position
DictKeys == <<"k", "j", "i", "h">>

\* the entries key=literal joined by commas
RECURSIVE FlatToken(_, _)
FlatToken(lits, i) ==
    IF i > Len(lits) THEN <<>>
    ELSE (IF i > 1 THEN <<",">> ELSE <<>>) \o <<DictKeys[i], "=">> \o lits[i]
         \o FlatToken(lits, i + 1)

\* the members "key": literal joined by commas
RECURSIVE JsonMembers(_, _)
JsonMembers(lits, i) ==
    IF i > Len(lits) THEN <<>>
    ELSE (IF i > 1 THEN <<",", " ">> ELSE <<>>) \o <<"\"", DictKeys[i], "\"", ":", " ">>
         \o lits[i] \o JsonMembers(lits, i + 1)

\* the literals of a token of FlatToken
LiteralsOf(token) ==
    IF token = <<>> THEN <<>>
    ELSE [i \in 1..Len(Split(token, ",")) |->
              SubSeq(Split(token, ",")[i], 3, Len(Split(token, ",")[i]))]

InitPairs ==
    /\ parser \in {DataclassArgParser(<<N_DictTypesConfig>>),
                   DataclassArgParser(<<N_BoolDictConfig>>)}
    /\ args = <<>>
    /\ cfgfile = NoConfig
    /\ call = "none"
    /\ outcome = NoOutcome
    /\ orig = NoOutcome

\* parser.parse(["--" + dest, "k=<literal>,j=<literal>"])
ParseFlat ==
    \E dest \in Dests(parser), lits \in SeqsUpTo(DictLiterals, MaxPairs) :
        ParseToken(dest, FlatToken(lits, 1))

\* parser.parse(["--" + dest, '{"k": <literal>, "j": <literal>}']) for the
\* dest and the literals of the call before
ParseJson ==
    /\ call = "parse"
    /\ \E dest \in DOMAIN args :
          \E token \in {<<"{">> \o JsonMembers(LiteralsOf(args[dest]), 1) \o <<"}">>} :
             /\ args' = (dest :> token)
             /\ outcome' = parse(parser, (dest :> token), NoConfig)
    /\ orig' = outcome
    /\ call' = "parse_json"
    /\ UNCHANGED <<parser, cfgfile>>

NextPairs == ParseFlat \/ ParseJson

SpecPairs == InitPairs /\ [][NextPairs]_vars

-----------------------------------------------------------------------------
(* Compound values in the file: a parser for a record type with list,      *)
(* tuple or dict fields is called with a file that holds a value for one   *)
(* of the fields, alone or with a token for the same field.                *)

\* a list, a tuple or a dict of the file has at most MaxElems elements
MaxElems == 3

\* the elements a file can hold in a list or a dict: scalars of the four
\* types, and a list
FileElems ==
    {IntV(1), FloatV(25, 1), StrV(<<"t", "w", "o">>), BoolV(TRUE), ListV(<<IntV(1)>>)}

\* the keys a file can hold in a mapping: strings, and (YAML) an integer
FileKeys == {StrV(<<"k">>), StrV(<<"j">>), IntV(3)}

\* the lists of a file
FileLists == {ListV(s) : s \in SeqsUpTo(FileElems, MaxElems)}

\* the mappings of a file
FileDicts ==
    {DictV(m) : m \in UNION {[K -> FileElems] : K \in Subsets(FileKeys, MaxElems - 1)}}

\* the values a file can hold for a list, tuple or dict field: lists,
\* mappings and scalars
CompoundFileValues == FileLists \cup FileDicts \cup {IntV(1), StrV(<<"t", "w", "o">>)}

\* the file with the value for the field at dest in the section of its
\* record: a JSON file, a YAML file if a key of the value is no string
CompoundFile(dest, value) ==
    ConfigFile(TRUE,
               IF value.t = "dict" /\ \E k \in DOMAIN value.v : k.t # "str"
               THEN ".yaml" ELSE ".json",
               TRUE,
               DictV(StrV(dest[1]) :> DictV(StrV(dest[2]) :> value)))

\* a token for a flag of the type ty
CompoundToken(ty) ==
    CASE ty.k = "list" -> <<"4">>
      [] ty.k = "tuple" -> <<"4", ",", "5", ",", "6">>
      [] OTHER -> <<"k", "=", "1">>

InitCompound ==
    /\ parser \in {DataclassArgParser(<<N_ListConfig>>),
                   DataclassArgParser(<<N_TupleConfig>>),
                   DataclassArgParser(<<N_DictTypesConfig>>)}
    /\ args = <<>>
    /\ cfgfile = NoConfig
    /\ call = "none"
    /\ outcome = NoOutcome
    /\ orig = NoOutcome

\* parser.parse(["--config", file]) and
\* parser.parse(["--config", file, "--" + dest, token])
ParseCompound ==
    /\ call = "none"
    /\ \E dest \in Dests(parser), value \in CompoundFileValues :
          \E cli \in {<<>>, (dest :> CompoundToken(TypeOfDest(parser, dest)))} :
             /\ args' = cli
             /\ cfgfile' = CompoundFile(dest, value)
             /\ outcome' = parse(parser, cli, CompoundFile(dest, value))
    /\ call' = "parse"
    /\ UNCHANGED <<parser, orig>>

NextCompound == ParseCompound

SpecCompound == InitCompound /\ [][NextCompound]_vars

-----------------------------------------------------------------------------
(* Calls in sequence: a parser is constructed and called again and again;  *)
(* between two calls the caller may change the objects of the result it    *)
(* was handed.  The record types are those whose defaults are immutable    *)
(* or come from a factory, so that every mutable object of a result is     *)
(* made in the call: parse_args fills a new namespace, the file is loaded  *)
(* anew and default_factory is called anew.                                *)

\* tokens of a call for a flag of the type ty: ones that decode, and for a
\* number one that does not
RepeatTokens(ty) ==
    CASE ty.k = "list" -> {<<"4", ",", "5">>, <<"x">>}
      [] ty.k = "int" -> {<<"7">>, <<"q">>}
      [] ty.k = "float" -> {<<"2", ".", "5">>}
      [] OTHER -> {<<"b", "a", "r">>}

\* values of a file for a field of the type ty: one list, one scalar
RepeatFileValues == {ListV(<<IntV(8)>>), StrV(<<"h", "i">>)}

\* the mapping that holds value at the dotted name path
RECURSIVE NestAt(_, _)
NestAt(path, value) ==
    IF path = <<>> THEN value ELSE DictV(StrV(Head(path)) :> NestAt(Tail(path), value))

\* the command lines of a call: no flag, or one flag
RepeatClis(p) ==
    {<<>>} \cup UNION {{(d :> token) : token \in RepeatTokens(TypeOfDest(p, d))}
                           : d \in Dests(p)}

\* the files of a call: none, one that does not exist, one with one entry
RepeatFiles(p) ==
    {NoConfig, ConfigFile(FALSE, ".json", FALSE, DictV(<<>>))}
    \cup {ConfigFile(TRUE, ".json", TRUE, NestAt(d, value)) :
              d \in Dests(p), value \in RepeatFileValues}

\* what the caller makes of the value of a field of a result: a list with
\* one more element, an instance with another x, or another value
Mutated(value) ==
    CASE value.t = "list" -> ListV(Append(value.v, IntV(99)))
      [] value.t = "instance" /\ N_x \in DOMAIN value.v.fields ->
           InstV(value.v.cls, [value.v.fields EXCEPT ![N_x] = IntV(99)])
      [] OTHER -> IntV(99)

InitRepeat ==
    /\ parser \in {DataclassArgParser(<<N_ListConfig>>), DataclassArgParser(<<N_Outer>>)}
    /\ args = <<>>
    /\ cfgfile = NoConfig
    /\ call = "none"
    /\ outcome = NoOutcome
    /\ orig = NoOutcome

\* the first parser.parse(args)
ParseFirst ==
    /\ call = "none"
    /\ \E cli \in RepeatClis(parser), file \in RepeatFiles(parser) :
          /\ args' = cli
          /\ cfgfile' = file
          /\ outcome' = parse(parser, cli, file)
    /\ call' = "parse"
    /\ UNCHANGED <<parser, orig>>

\* the caller changes a field of an instance of the result: it appends to
\* the list, or assigns to the attribute
Mutate ==
    /\ call \in {"parse", "parse_again"}
    /\ outcome.kind = "return"
    /\ \E cls \in {<<parser.dataclass_types[i]>> : i \in 1..Len(parser.dataclass_types)} :
         \E n \in DOMAIN outcome.v[cls].v.fields :
          outcome' = Returned([outcome.v EXCEPT ![cls] =
                         InstV(@.v.cls, [@.v.fields EXCEPT ![n] = Mutated(@)])])
    /\ call' = "mutated"
    /\ UNCHANGED <<parser, args, cfgfile, orig>>

\* parse_args(args, namespace) with the namespace of the call before
ParseAgain_on_earlier_namespace ==
    /\ call \in {"parse", "mutated", "parse_again"}
    /\ \E cli \in RepeatClis(parser), file \in RepeatFiles(parser) :
          /\ args' = cli
          /\ cfgfile' = file
          /\ outcome' = parse(parser, cli @@ args, file)
    /\ orig' = outcome
    /\ call' = "parse_again"
    /\ UNCHANGED parser

\* parser.parse(args) after other calls; orig is the outcome of the call
\* before as the caller has left it
ParseAgain ==
    /\ call \in {"parse", "mutated", "parse_again"}
    /\ \E cli \in RepeatClis(parser), file \in RepeatFiles(parser) :
          /\ args' = cli
          /\ cfgfile' = file
          /\ outcome' = parse(parser, cli, file)
    /\ orig' = outcome
    /\ call' = "parse_again"
    /\ UNCHANGED parser

NextRepeat == ParseFirst \/ Mutate \/ ParseAgain

SpecRepeat == InitRepeat /\ [][NextRepeat]_vars

-----------------------------------------------------------------------------
(* Custom flags: a parser is constructed from positional record types and  *)
(* keywords, add_flag is called on it, and it is called once.              *)

\* at most MaxFlags custom flags are registered on a parser
MaxFlags == 2

\* the calls of add_flag and the items of flags=: the option strings and the
\* type= (or action="store_true") of the kwargs
FlagCalls ==
    {[names |-> <<long(<<<<"v", "e", "r", "b", "o", "s", "e">>>>), short(<<<<"v">>>>)>>,
      type |-> T_store_true],
     [names |-> <<long(<<<<"l", "e", "v", "e", "l">>>>)>>, type |-> T_int],
     [names |-> <<long(<<N_Outer>>)>>, type |-> T_int],
     [names |-> <<long(<<N_config>>)>>, type |-> T_str],
     [names |-> <<long(<<N_Outer, N_z>>)>>, type |-> T_float],
     [names |-> <<long(<<<<"l", "o", "g">>>>), short(<<<<"v">>>>)>>, type |-> T_str]}

\* the keywords of a constructor call: none, a record type under an alias or
\* under a reserved name, a list of flags, another config flag
KeywordInputs ==
    {<<>>,
     [app_config |-> ClassV(N_Inner)],
     [flags |-> ClassV(N_Inner)],
     [config_flag |-> ClassV(N_Inner)],
     [config_flag |-> TupleV(<<short(<<<<"c">>>>), long(<<<<"c", "f", "g">>>>)>>)]}
    \cup {[flags |-> ListV(<<c>>)] : c \in FlagCalls}

\* the configuration files of these calls: none, or one that sets Outer.z
FlagFiles ==
    {NoConfig,
     ConfigFile(TRUE, ".json", TRUE,
                DictV(StrV(N_Outer) :> DictV(StrV(N_z) :> FloatV(25, 1))))}

\* no parser object yet
NoParser == [t |-> "none"]

InitFlags ==
    /\ parser = NoParser
    /\ args = <<>>
    /\ cfgfile = NoConfig
    /\ call = "start"
    /\ outcome = NoOutcome
    /\ orig = NoOutcome

\* DataclassArgParser(*dataclass_types, **keywords)
New ==
    /\ call = "start"
    /\ \E dataclass_types \in {<<>>, <<N_Outer>>}, keywords \in KeywordInputs :
         \E made \in {DataclassArgParser_kw(dataclass_types, keywords)} :
          /\ args' = [dataclass_types |-> dataclass_types, keywords |-> keywords]
          /\ IF IsAbort(made)
             THEN parser' = parser /\ outcome' = made.v /\ call' = "init_raised"
             ELSE parser' = made /\ outcome' = NoOutcome /\ call' = "init"
    /\ UNCHANGED <<cfgfile, orig>>

\* parser.add_flag(*names, **kwargs)
AddFlag ==
    /\ call \in {"init", "add_flag"}
    /\ Cardinality(parser.flags) < MaxFlags
    /\ \E c \in FlagCalls :
         \E added \in {add_flag(parser, c.names, c.type)} :
          /\ args' = c
          /\ parser' = added.self
          /\ outcome' = IF added.exc # "" THEN Raised(added.exc, <<>>) ELSE Returned(NoneV)
    /\ call' = "add_flag"
    /\ UNCHANGED <<cfgfile, orig>>

\* parser.parse(args) on a parser with custom flags
ParseFlags ==
    /\ call \in {"init", "add_flag"}
    /\ \E cli \in CliInputs(parser), file \in FlagFiles :
          /\ args' = cli
          /\ cfgfile' = file
          /\ outcome' = parse(parser, cli, file)
    /\ call' = "parse"
    /\ UNCHANGED <<parser, orig>>

NextFlags == New \/ AddFlag \/ ParseFlags

SpecFlags == InitFlags /\ [][NextFlags]_vars

-----------------------------------------------------------------------------
(* What the inputs of the last call say, read off the inputs themselves.   *)

\* the value each token of Tokens stands for under the type of its flag
TokenValue(ty, token) ==
    CASE ty.k = "int" /\ token = <<"4", "2">> -> IntV(42)
      [] ty.k = "float" /\ token = <<"2", ".", "5">> -> FloatV(25, 1)
      [] ty.k = "float" /\ token = <<"7">> -> FloatV(7, 0)
      [] ty.k = "str" -> StrV(token)
      [] ty.k = "bool" /\ token = <<"t", "r", "u", "e">> -> BoolV(TRUE)
      [] ty = T_tuple(<<T_int, T_int, T_int>>) /\ token = <<"4", ",", "5", ",", "6">> ->
           TupleV(<<IntV(4), IntV(5), IntV(6)>>)
      [] ty = T_tuple(<<T_str, T_float>>) /\ token = <<"b", ",", "7">> ->
           TupleV(<<StrV(<<"b">>), FloatV(7, 0)>>)
      [] ty = T_dict(T_str, T_int) /\ token = <<"k", "=", "1">> ->
           DictV(StrV(<<"k">>) :> IntV(1))
      [] ty = T_dict(T_str, T_float) /\ token = <<"k", "=", "1">> ->
           DictV(StrV(<<"k">>) :> FloatV(1, 0))
      [] OTHER -> ConvError

\* the last call was parse and returned a result
ParseReturned == call = "parse" /\ outcome.kind = "return"

\* the flag of the dotted name path is on the command line of the last call
OnCli(path) == path \in DOMAIN args

\* the file of the last call has an entry at the dotted name path
RECURSIVE HasEntry(_, _)
HasEntry(tree, path) ==
    /\ tree.t = "dict"
    /\ StrV(Head(path)) \in DOMAIN tree.v
    /\ (Len(path) = 1 \/ HasEntry(tree.v[StrV(Head(path))], Tail(path)))

\* the value of that entry
RECURSIVE EntryAt(_, _)
EntryAt(tree, path) ==
    IF Len(path) = 1 THEN tree.v[StrV(Head(path))]
    ELSE EntryAt(tree.v[StrV(Head(path))], Tail(path))

InFile(path) == cfgfile.given /\ HasEntry(cfgfile.data, path)

FileValue(path) == EntryAt(cfgfile.data, path)

\* the value of the field at the dotted name path in the result
RECURSIVE Attr(_, _)
Attr(inst, path) ==
    IF path = <<>> THEN inst ELSE Attr(inst.v.fields[Head(path)], Tail(path))

ResultAt(path) == Attr(outcome.v[<<Head(path)>>], Tail(path))

RegisteredTypes == {parser.dataclass_types[i] : i \in 1..Len(parser.dataclass_types)}

\* the fields of cls that are leaves: their type is no record type
LeafFields(cls) ==
    {fields(cls)[i] : i \in {j \in 1..Len(fields(cls)) : ~is_dataclass(fields(cls)[j].type)}}

-----------------------------------------------------------------------------
(* C1: for every top-level leaf field of every registered record, a parse  *)
(* that returns has resolved the field to the decoded command-line token   *)
(* if its flag is on the command line, else to the file's value if the     *)
(* record's section of the file has an entry for the field, else to the    *)
(* declared default or factory value.                                      *)
C1_Precedence ==
    ParseReturned =>
        \A cls \in RegisteredTypes : \A f \in LeafFields(cls) :
            ResultAt(<<cls, f.name>>) =
                IF OnCli(<<cls, f.name>>) THEN TokenValue(f.type, args[<<cls, f.name>>])
                ELSE IF InFile(<<cls, f.name>>) THEN FileValue(<<cls, f.name>>)
                ELSE f.value

\* a leaf that is both on the command line and in the file, with different
\* values, and one that is only in the file, with a value that is not its
\* default
C1_Witness ==
    /\ ParseReturned
    /\ \E cls \in RegisteredTypes : \E f, g \in LeafFields(cls) :
          /\ OnCli(<<cls, f.name>>) /\ InFile(<<cls, f.name>>)
          /\ FileValue(<<cls, f.name>>) # TokenValue(f.type, args[<<cls, f.name>>])
          /\ ~OnCli(<<cls, g.name>>) /\ InFile(<<cls, g.name>>)
          /\ FileValue(<<cls, g.name>>) # g.value


-----------------------------------------------------------------------------
\* the fields of cls whose type is a record type
RecordFields(cls) ==
    {fields(cls)[i] : i \in {j \in 1..Len(fields(cls)) : is_dataclass(fields(cls)[j].type)}}

\* the leaves below the record type cls at the dotted name prefix, at any
\* depth: the dotted name and the field of each
RECURSIVE LeavesBelow(_, _)
LeavesBelow(cls, prefix) ==
    {[path |-> Append(prefix, f.name), field |-> f] : f \in LeafFields(cls)}
    \cup UNION {LeavesBelow(f.type.cls, Append(prefix, f.name)) : f \in RecordFields(cls)}

\* a flag at or below the dotted name prefix is on the command line
CliAtOrBelow(prefix) ==
    \E key \in DOMAIN args : key = prefix \/ StartsWithDot(key, prefix)

(* C2: when the command line gives some of the leaves below a nested       *)
(* record field of a registered record, a parse that returns has, for      *)
(* every leaf below that field, the decoded token if the leaf is on the    *)
(* command line, else the file's value for the leaf if it has one, else    *)
(* the leaf's own declared default; and every other field of the record    *)
(* that has no flag on the command line has the value a parse of the same  *)
(* file with an empty command line gives it.                               *)
C2_NestedOverride ==
    ParseReturned =>
        \A cls \in RegisteredTypes : \A F \in RecordFields(cls) :
            CliAtOrBelow(<<cls, F.name>>) =>
                /\ \A leaf \in LeavesBelow(F.type.cls, <<cls, F.name>>) :
                      ResultAt(leaf.path) =
                          IF OnCli(leaf.path)
                          THEN TokenValue(leaf.field.type, args[leaf.path])
                          ELSE IF InFile(leaf.path) THEN FileValue(leaf.path)
                          ELSE leaf.field.value
                /\ \A g \in {fields(cls)[i] : i \in 1..Len(fields(cls))} :
                      ~CliAtOrBelow(<<cls, g.name>>) =>
                          LET base == parse(parser, <<>>, cfgfile)
                          IN  /\ base.kind = "return"
                              /\ ResultAt(<<cls, g.name>>) =
                                     Attr(base.v[<<cls>>], <<g.name>>)

\* one leaf of a nested record on the command line, a second leaf of it
\* taken from the file, a third left to its default, and a field of the
\* record outside the nested one taken from the file
C2_Witness ==
    /\ ParseReturned
    /\ \E cls \in RegisteredTypes : \E F \in RecordFields(cls) :
          /\ \E l1, l2, l3 \in LeavesBelow(F.type.cls, <<cls, F.name>>) :
                /\ OnCli(l1.path)
                /\ ~OnCli(l2.path) /\ InFile(l2.path) /\ FileValue(l2.path) # l2.field.value
                /\ ~OnCli(l3.path) /\ ~InFile(l3.path)
          /\ \E g \in LeafFields(cls) :
                /\ ~OnCli(<<cls, g.name>>) /\ InFile(<<cls, g.name>>)
                /\ FileValue(<<cls, g.name>>) # g.value


-----------------------------------------------------------------------------
(* C3: when no flag at or below a nested record field is on the command    *)
(* line and the file has no subtree, or an empty one, for the field, a     *)
(* parse that returns has given the field its declared default or factory  *)
(* instance as a whole.                                                    *)
C3_WholeDefault ==
    ParseReturned =>
        \A cls \in RegisteredTypes : \A F \in RecordFields(cls) :
            /\ ~CliAtOrBelow(<<cls, F.name>>)
            /\ (~InFile(<<cls, F.name>>) \/ FileValue(<<cls, F.name>>) = DictV(<<>>))
            /\ F.dflt # "MISSING"
            => ResultAt(<<cls, F.name>>) = F.value

\* the same with the file holding no subtree at all for the field
C3_WholeDefaultWithoutSubtree ==
    ParseReturned =>
        \A cls \in RegisteredTypes : \A F \in RecordFields(cls) :
            /\ ~CliAtOrBelow(<<cls, F.name>>)
            /\ ~InFile(<<cls, F.name>>)
            /\ F.dflt # "MISSING"
            => ResultAt(<<cls, F.name>>) = F.value


-----------------------------------------------------------------------------
\* the required leaves of the registered record cls that are neither on the
\* command line nor in the file, as flags, in the order of declaration
RECURSIVE MissingFrom(_, _)
MissingFrom(cls, i) ==
    IF i > Len(fields(cls)) THEN <<>>
    ELSE LET f == fields(cls)[i]
         IN  (IF /\ ~is_dataclass(f.type)
                 /\ f.dflt = "MISSING"
                 /\ ~OnCli(<<cls, f.name>>)
                 /\ ~InFile(<<cls, f.name>>)
              THEN <<<<cls, f.name>>>> ELSE <<>>)
             \o MissingFrom(cls, i + 1)

MissingLeaves(cls) == MissingFrom(cls, 1)

\* a value of a file has the native type of the scalar type ty
NativeTypeMatches(ty, value) ==
    CASE ty.k = "int" -> value.t = "int"
      [] ty.k = "float" -> value.t \in {"int", "float"}
      [] ty.k = "bool" -> value.t = "bool"
      [] ty.k = "str" -> value.t = "str"
      [] OTHER -> FALSE

\* nothing but a missing required leaf can end the call for the record cls:
\* the file, if given, loads, all its fields are scalar leaves, every token
\* on the command line decodes and every file value has the declared type
OtherwiseValid(cls) ==
    /\ cfgfile.given =>
          /\ cfgfile.exists /\ cfgfile.valid
          /\ cfgfile.ext \in {".json", ".yaml", ".yml"}
    /\ RecordFields(cls) = {}
    /\ \A f \in LeafFields(cls) :
          /\ f.type.k \in {"int", "float", "bool", "str"}
          /\ OnCli(<<cls, f.name>>) =>
                ~IsError(TokenValue(f.type, args[<<cls, f.name>>]))
          /\ InFile(<<cls, f.name>>) =>
                NativeTypeMatches(f.type, FileValue(<<cls, f.name>>))

(* C4: when required leaves of a registered record are absent from the     *)
(* command line and from the file, parse returns no result; the error      *)
(* that reports missing leaves of the record is a single one that names    *)
(* every missing leaf of it as --<Record>.<field>, in the order of         *)
(* declaration, never the first one alone; and it is the error of the call *)
(* whenever the inputs are otherwise valid.                                *)
C4_MissingAggregated ==
    call = "parse" =>
        \A cls \in RegisteredTypes :
            MissingLeaves(cls) # <<>> =>
                /\ outcome.kind # "return"
                /\ (outcome.kind = "SystemExit" /\ outcome.v.why = "missing"
                       /\ outcome.v.cls = cls /\ Len(outcome.v.names[1]) = 2)
                   => outcome.v.names = MissingLeaves(cls)
                /\ (Len(parser.dataclass_types) = 1 /\ OtherwiseValid(cls))
                   => outcome = SystemExit("missing", cls, MissingLeaves(cls))

\* two required leaves are missing and the call ended with the error that
\* names both
C4_Witness ==
    /\ call = "parse"
    /\ \E cls \in RegisteredTypes :
          /\ Len(MissingLeaves(cls)) >= 2
          /\ outcome = SystemExit("missing", cls, MissingLeaves(cls))


-----------------------------------------------------------------------------
(* C5: safe_parse ends every call by returning: Ok with the result of      *)
(* parse when parse returns, Err when parse fails in any way; it never     *)
(* exits the process.                                                      *)
C5_SafeParseNeverExits ==
    call = "safe_parse" =>
        LET o == parse(parser, args, cfgfile)
        IN  /\ outcome.kind \in {"Ok", "Err"}
            /\ o.kind = "return" => outcome = [kind |-> "Ok", v |-> o.v]
            /\ o.kind # "return" => outcome.kind = "Err"

\* the part of it that is about the exceptions parse raises
C5_ExceptionsBecomeErr ==
    call = "safe_parse" =>
        LET o == parse(parser, args, cfgfile)
        IN  /\ o.kind = "return" => outcome = [kind |-> "Ok", v |-> o.v]
            /\ o.kind = "raise" => outcome.kind = "Err"

-----------------------------------------------------------------------------
\* the file of the last call was given and loaded
FileLoaded ==
    /\ cfgfile.given /\ cfgfile.exists /\ cfgfile.valid
    /\ cfgfile.ext \in {".json", ".yaml", ".yml"}

\* the scalar leaves below the records in recs whose value comes from the
\* file (in the file, not on the command line) and has not the native type
\* of the declared one
FileMismatches(leaves) ==
    {leaf \in leaves :
        /\ leaf.field.type.k \in {"int", "float", "bool", "str"}
        /\ ~OnCli(leaf.path)
        /\ InFile(leaf.path)
        /\ ~NativeTypeMatches(leaf.field.type, FileValue(leaf.path))}

\* the leaves of the registered records, at any depth
AllLeaves == UNION {LeavesBelow(cls, <<cls>>) : cls \in RegisteredTypes}

\* the leaves that are fields of the registered records themselves
TopLevelLeaves ==
    UNION {{[path |-> <<cls, f.name>>, field |-> f] : f \in LeafFields(cls)}
               : cls \in RegisteredTypes}

\* every token on the command line of the last call decodes
CliDecodes ==
    \A d \in DOMAIN args : ~IsError(type_parser(TypeOfDest(parser, d), args[d]))

(* C6: a value the file gives to a scalar leaf is accepted only if it has  *)
(* the native type of the declared one (bool: a boolean; int: an integer   *)
(* that is no boolean; float: an integer or a float, no boolean; str: a    *)
(* string); a parse whose file gives any scalar leaf another value ends    *)
(* with a type error.                                                      *)
C6_FileScalarValidated ==
    (call = "parse" /\ FileLoaded /\ CliDecodes /\ FileMismatches(AllLeaves) # {})
        => outcome.kind = "raise" /\ outcome.v.exc = "TypeError"

\* the file gives a mapping to every record field of a registered record
\* that it gives a value
FileRecordsAreMappings ==
    \A cls \in RegisteredTypes : \A F \in RecordFields(cls) :
        InFile(<<cls, F.name>>) => FileValue(<<cls, F.name>>).t = "dict"

\* the same for the leaves that are fields of the registered records, with
\* the type error naming a mismatching field
C6_TopLevelFileScalarValidated ==
    (call = "parse" /\ FileLoaded /\ CliDecodes /\ FileRecordsAreMappings
        /\ FileMismatches(TopLevelLeaves) # {})
        => /\ outcome.kind = "raise" /\ outcome.v.exc = "TypeError"
           /\ outcome.v.at \in {leaf.path : leaf \in FileMismatches(TopLevelLeaves)}


-----------------------------------------------------------------------------
\* the flag and the token of a call with one flag on the command line
TheDest == CHOOSE d \in DOMAIN args : TRUE

TheToken == args[TheDest]

True6 == {<<"T", "r", "u", "e">>, <<"t", "r", "u", "e">>, <<"1">>}

False6 == {<<"F", "a", "l", "s", "e">>, <<"f", "a", "l", "s", "e">>, <<"0">>}

(* C7: a parse with a token for a bool flag returns with the field true    *)
(* for the tokens True, true and 1, returns with the field false for the   *)
(* tokens False, false and 0, and is ended by argparse's error for every   *)
(* other token.                                                            *)
C7_StrictBool ==
    (call = "parse" /\ TypeOfDest(parser, TheDest).k = "bool") =>
        IF TheToken \in True6
        THEN outcome.kind = "return" /\ ResultAt(TheDest) = BoolV(TRUE)
        ELSE IF TheToken \in False6
        THEN outcome.kind = "return" /\ ResultAt(TheDest) = BoolV(FALSE)
        ELSE outcome = SystemExit("argument", <<>>, <<>>)

\* a spelling of true in other letter case than the two accepted ones is
\* rejected
C7_Witness ==
    /\ call = "parse"
    /\ TypeOfDest(parser, TheDest).k = "bool"
    /\ TheToken = <<"T", "R", "U", "E">>
    /\ outcome = SystemExit("argument", <<>>, <<>>)

-----------------------------------------------------------------------------
\* the segments of a tuple token: the token without its surrounding
\* parentheses, split on commas, each piece trimmed, empty pieces dropped
Segments(token) == Items(Unwrap(token, "(", ")"))

\* what the segments of TupleSegments stand for under an element type; no
\* entry for a segment that is not written as a value of the type
HasElementValue(ty, seg) ==
    \/ ty.k = "str"
    \/ ty.k = "int" /\ seg \in {<<"1">>, <<"2">>}
    \/ ty.k = "float" /\ seg \in {<<"1">>, <<"2">>, <<"1", ".", "5">>}

ElementValue(ty, seg) ==
    CASE ty.k = "str" -> StrV(seg)
      [] ty.k = "int" /\ seg = <<"1">> -> IntV(1)
      [] ty.k = "int" /\ seg = <<"2">> -> IntV(2)
      [] ty.k = "float" /\ seg = <<"1">> -> FloatV(1, 0)
      [] ty.k = "float" /\ seg = <<"2">> -> FloatV(2, 0)
      [] ty.k = "float" /\ seg = <<"1", ".", "5">> -> FloatV(15, 1)

(* C8: a parse with a token for a tuple flag returns only if the token has *)
(* as many segments as the tuple type has element types, and then element  *)
(* i of the field is segment i decoded for element type i; with fewer or   *)
(* more segments it is ended by argparse's error.                          *)
C8_TupleArity ==
    (call = "parse" /\ TypeOfDest(parser, TheDest).k = "tuple") =>
        LET ty == TypeOfDest(parser, TheDest)
            segs == Segments(TheToken)
        IN  /\ Len(segs) # Len(ty.args) => outcome = SystemExit("argument", <<>>, <<>>)
            /\ outcome.kind = "return" =>
                  /\ Len(segs) = Len(ty.args)
                  /\ ResultAt(TheDest).t = "tuple"
                  /\ Len(ResultAt(TheDest).v) = Len(ty.args)
                  /\ \A i \in 1..Len(ty.args) :
                        HasElementValue(ty.args[i], segs[i]) =>
                            ResultAt(TheDest).v[i] = ElementValue(ty.args[i], segs[i])
            /\ (/\ Len(segs) = Len(ty.args)
                /\ \A i \in 1..Len(ty.args) : HasElementValue(ty.args[i], segs[i]))
               => outcome.kind = "return"

\* a token with more segments than element types, each of them a value of
\* its element type as far as the types reach, is rejected
C8_Witness ==
    /\ call = "parse"
    /\ TypeOfDest(parser, TheDest) = T_tuple(<<T_str, T_float>>)
    /\ Segments(TheToken) = <<<<"b">>, <<"1", ".", "5">>, <<"2">>>>
    /\ outcome = SystemExit("argument", <<>>, <<>>)

\* a token with fewer segments than element types is rejected
C8_WitnessFewer ==
    /\ call = "parse"
    /\ TypeOfDest(parser, TheDest) = T_tuple(<<T_int, T_int, T_int>>)
    /\ Segments(TheToken) = <<<<"1">>, <<"2">>>>
    /\ outcome = SystemExit("argument", <<>>, <<>>)

\* a token in parentheses with an empty piece is accepted when the pieces
\* that are left are as many as the element types
C8_WitnessAccepted ==
    /\ call = "parse"
    /\ TypeOfDest(parser, TheDest) = T_tuple(<<T_str, T_float>>)
    /\ StartsWith(TheToken, "(")
    /\ Len(Split(TheToken, ",")) = 3
    /\ outcome.kind = "return"
    /\ ResultAt(TheDest) = TupleV(<<StrV(<<"b">>), FloatV(15, 1)>>)

-----------------------------------------------------------------------------
\* what the entries of DictEntries stand for under dict[str, int]: the key
\* and the integer, or nothing for an entry that is no key=integer
EntryIsInt(entry) ==
    Strip(entry) \in {<<"k", "=", "1">>, <<"j", "=", "2">>, <<"k", " ", "=", " ", "3">>}

EntryKey(entry) == StrV(<<Strip(entry)[1]>>)

EntryInt(entry) ==
    CASE Strip(entry) = <<"k", "=", "1">> -> IntV(1)
      [] Strip(entry) = <<"j", "=", "2">> -> IntV(2)
      [] Strip(entry) = <<"k", " ", "=", " ", "3">> -> IntV(3)

\* the non-empty entries of a token in the key=value syntax
EntriesOf(token) == Items(token)

\* the last entry of entries with the key k
LastWith(entries, k) ==
    entries[CHOOSE i \in 1..Len(entries) :
               /\ EntryKey(entries[i]) = k
               /\ \A j \in (i + 1)..Len(entries) : EntryKey(entries[j]) # k]

\* the token is in the key=value syntax, not the JSON one
IsFlat(token) == ~(StartsWith(Strip(token), "{") /\ EndsWith(Strip(token), "}"))

(* C9: a parse with a token in the key=value syntax for a dict[str, int]   *)
(* flag returns the mapping of every key to its integer when every entry   *)
(* is key=integer, and is ended by argparse's error when an entry has a    *)
(* float, a boolean or a word as its value, or has no '='.                 *)
C9_FlatIntDict ==
    (/\ call = "parse"
     /\ TypeOfDest(parser, TheDest) = T_dict(T_str, T_int)
     /\ IsFlat(TheToken)) =>
        LET entries == EntriesOf(TheToken)
        IN  IF \A i \in 1..Len(entries) : EntryIsInt(entries[i])
            THEN /\ outcome.kind = "return"
                 /\ ResultAt(TheDest).t = "dict"
                 /\ DOMAIN ResultAt(TheDest).v =
                        {EntryKey(entries[i]) : i \in 1..Len(entries)}
                 /\ \A k \in DOMAIN ResultAt(TheDest).v :
                        ResultAt(TheDest).v[k] = EntryInt(LastWith(entries, k))
            ELSE outcome = SystemExit("argument", <<>>, <<>>)

\* an entry with a float value after an entry with an integer is rejected
C9_Witness ==
    /\ call = "parse"
    /\ TypeOfDest(parser, TheDest) = T_dict(T_str, T_int)
    /\ TheToken = <<"j", "=", "2", ",", "k", "=", "1", ".", "5">>
    /\ outcome = SystemExit("argument", <<>>, <<>>)

\* two entries with different keys are accepted
C9_WitnessAccepted ==
    /\ call = "parse"
    /\ TypeOfDest(parser, TheDest) = T_dict(T_str, T_int)
    /\ TheToken = <<"k", "=", "1", ",", "j", "=", "2">>
    /\ outcome.kind = "return"
    /\ ResultAt(TheDest) = DictV((StrV(<<"k">>) :> IntV(1)) @@ (StrV(<<"j">>) :> IntV(2)))

-----------------------------------------------------------------------------
\* a == b of Python: numbers by their value, sequences of the same type
\* element by element, mappings key by key, instances of the same class
\* field by field
RECURSIVE PyEq(_, _)
PyEq(a, b) ==
    LET num(x) == CASE x.t = "int" -> FloatV(x.v, 0)
                    [] x.t = "bool" -> FloatV(IF x.v THEN 1 ELSE 0, 0)
                    [] x.t = "float" -> NormFloat(x.v[1], x.v[2])
        numeric == {"int", "bool", "float"}
    IN  IF a.t \in numeric /\ b.t \in numeric THEN num(a) = num(b)
        ELSE IF a.t # b.t THEN FALSE
        ELSE CASE a.t \in {"list", "tuple"} ->
                    /\ Len(a.v) = Len(b.v)
                    /\ \A i \in 1..Len(a.v) : PyEq(a.v[i], b.v[i])
               [] a.t = "dict" ->
                    /\ DOMAIN a.v = DOMAIN b.v
                    /\ \A k \in DOMAIN a.v : PyEq(a.v[k], b.v[k])
               [] a.t = "instance" ->
                    /\ a.v.cls = b.v.cls
                    /\ DOMAIN a.v.fields = DOMAIN b.v.fields
                    /\ \A n \in DOMAIN a.v.fields : PyEq(a.v.fields[n], b.v.fields[n])
               [] OTHER -> a = b

(* C10: when the result of a parse that returned is written to a file and  *)
(* parsed again with that file and no flag on the command line, the second *)
(* parse returns and the instance of every record equals the original one  *)
(* field for field.                                                        *)
C10_RoundTrip ==
    call = "roundtrip" =>
        /\ outcome.kind = "return"
        /\ \A cls \in RegisteredTypes : PyEq(outcome.v[<<cls>>], orig.v[<<cls>>])

\* the tree of the types of cls holds a tuple type
RECURSIVE HasTupleField(_)
HasTupleField(cls) ==
    \E i \in 1..Len(fields(cls)) :
        \/ fields(cls)[i].type.k = "tuple"
        \/ is_dataclass(fields(cls)[i].type) /\ HasTupleField(fields(cls)[i].type.cls)

\* every field of a record type of the instance holds an instance of it
RECURSIVE WellFormed(_)
WellFormed(inst) ==
    /\ inst.t = "instance"
    /\ \A i \in 1..Len(fields(inst.v.cls)) :
          is_dataclass(fields(inst.v.cls)[i].type) =>
              WellFormed(inst.v.fields[fields(inst.v.cls)[i].name])

\* the same for the records without tuple fields whose original instance
\* holds an instance in every field of a record type
C10_RoundTripWithoutTuples ==
    call = "roundtrip" =>
        \A cls \in RegisteredTypes :
            (~HasTupleField(cls) /\ WellFormed(orig.v[<<cls>>])) =>
                /\ outcome.kind = "return"
                /\ PyEq(outcome.v[<<cls>>], orig.v[<<cls>>])

-----------------------------------------------------------------------------
(* C11: a record type handed to the constructor under a keyword alias is   *)
(* registered: the construction returns a parser, and every leaf of the    *)
(* record has the flag --<alias>.<field> on it (so that the record is      *)
(* addressed and returned under the alias, next to the records registered  *)
(* positionally under their class names).                                  *)

C11_KeywordAlias ==
    (/\ call \in {"init", "init_raised"}
     /\ "app_config" \in DOMAIN args.keywords) =>
        /\ call = "init"
        /\ \A f \in FieldNames(N_Inner) :
               long(<<<<"a", "p", "p", "_", "c", "o", "n", "f", "i", "g">>, f>>)
                   \in parser.option_strings

-----------------------------------------------------------------------------
(* C12: a constructor call that hands a record type under one of the       *)
(* reserved names flags and config_flag raises ValueError.                 *)

C12_ReservedAlias ==
    (/\ call \in {"init", "init_raised"}
     /\ \E k \in {"flags", "config_flag"} :
            k \in DOMAIN args.keywords /\ args.keywords[k].t = "type") =>
        /\ call = "init_raised"
        /\ outcome = Raised("ValueError", <<>>)

-----------------------------------------------------------------------------
(* Custom flags.                                                           *)

\* the value of a custom flag after a parse with the command line cli: what
\* its token stands for, the default of its action without one
FlagValue(f, cli) ==
    IF f.type.k = "store_true" THEN BoolV(f.dest \in DOMAIN cli)
    ELSE IF f.dest \in DOMAIN cli THEN TokenValue(f.type, cli[f.dest])
    ELSE NoneV

\* the parser without its custom flags, and the command line without them
WithoutFlags(p) == [p EXCEPT !.flags = {}]

WithoutFlagTokens(p, cli) == [d \in DOMAIN cli \ FlagDests(p) |-> cli[d]]

\* every custom flag is in the result under its dest with its value, every
\* record under its name with the instance the parser without the custom
\* flags returns for it, and the config flag is not in the result
FlagsBesideRecords ==
    /\ \A f \in parser.flags :
          /\ f.dest \in DOMAIN outcome.v
          /\ outcome.v[f.dest] = FlagValue(f, args)
    /\ \A i \in 1..Len(parser.dataclass_types) :
          /\ <<parser.dataclass_types[i]>> \in DOMAIN outcome.v
          /\ outcome.v[<<parser.dataclass_types[i]>>] =
                parse(WithoutFlags(parser), WithoutFlagTokens(parser, args),
                      cfgfile).v[<<parser.dataclass_types[i]>>]
    /\ <<parser.config_dest>> \notin DOMAIN outcome.v

\* a custom flag of p has the name of a record of p as its dest
Collides(p) ==
    \E f \in p.flags : \E i \in 1..Len(p.dataclass_types) :
        f.dest = <<p.dataclass_types[i]>>

-----------------------------------------------------------------------------
(* C13: after a parse that returns, every custom flag (of flags= or of     *)
(* add_flag) is a top-level key of the result, its dest, with the value    *)
(* parsed for it; the record instances are in the result beside it, each   *)
(* as the parser without the custom flags builds it; the config flag is no *)
(* key of the result.                                                      *)

C13_CustomFlags == ParseReturned => FlagsBesideRecords

\* the same for the parsers on which no custom flag has the name of a record
C13_CustomFlagsWithoutCollision ==
    (ParseReturned /\ ~Collides(parser)) => FlagsBesideRecords

C13_Witness ==
    /\ ParseReturned
    /\ ~Collides(parser)
    /\ cfgfile.given
    /\ Len(parser.dataclass_types) = 1
    /\ \E f \in parser.flags : f.type.k = "store_true" /\ f.dest \in DOMAIN args
    /\ \E f \in parser.flags : f.type.k = "int" /\ f.dest \notin DOMAIN args

-----------------------------------------------------------------------------
(* C14: no parser holds a custom flag whose dest is the name of one of its *)
(* records (the registration of such a flag is refused), and a parse that  *)
(* returns has an instance of the record under the record's name.          *)

C14_CollisionRejected ==
    /\ call \in {"init", "add_flag", "parse"} => ~Collides(parser)
    /\ ParseReturned =>
          \A i \in 1..Len(parser.dataclass_types) :
              /\ <<parser.dataclass_types[i]>> \in DOMAIN outcome.v
              /\ outcome.v[<<parser.dataclass_types[i]>>].t = "instance"

-----------------------------------------------------------------------------
(* C15: a call of add_flag with an option string that is registered on the *)
(* parser (the config flag, a flag of flags=, a flag of a record leaf, a   *)
(* flag of an earlier add_flag, -h) raises ValueError and leaves the       *)
(* parser as it was: no option string and no flag of the call is           *)
(* registered.                                                             *)

C15_AddFlagConflict ==
    [][(/\ call \in {"init", "add_flag"}
        /\ call' = "add_flag"
        /\ \E i \in 1..Len(args'.names) : args'.names[i] \in parser.option_strings) =>
           /\ outcome' = Raised("ValueError", <<>>)
           /\ parser' = parser]_vars

\* add_flag has raised for a call whose first option string is free and
\* whose second is registered
C15_Witness ==
    /\ call = "add_flag"
    /\ outcome = Raised("ValueError", <<>>)
    /\ Len(args.names) = 2
    /\ args.names[1] \notin parser.option_strings
    /\ args.names[2] \in parser.option_strings

\* add_flag has raised for the flag of a record leaf and for the config flag
C15_WitnessLeaf ==
    /\ call = "add_flag"
    /\ outcome = Raised("ValueError", <<>>)
    /\ args.names = <<long(<<N_Outer, N_z>>)>>
    /\ parser.flags # {}

C15_WitnessConfig ==
    /\ call = "add_flag"
    /\ outcome = Raised("ValueError", <<>>)
    /\ args.names = <<long(<<N_config>>)>>

-----------------------------------------------------------------------------
(* Sequences of records.                                                   *)

\* the instance of cls built field by field from the mapping m: the entry
\* of m for a field, the declared default of the field without one
InstanceFrom(cls, m) ==
    InstV(cls, [n \in FieldNames(cls) |->
                   IF StrV(n) \in DOMAIN m.v THEN m.v[StrV(n)] ELSE FieldOf(cls, n).value])

\* the type of field f is a list or a tuple of records
IsSequenceOfRecords(f) ==
    /\ f.type.k \in {"list", "tuple"}
    /\ \A i \in 1..Len(f.type.args) : is_dataclass(f.type.args[i])

\* the file of the last call was loaded and holds a sequence of mappings for
\* the field at path, and the flag of the field is not on the command line
FileGivesMappings(path) ==
    /\ FileLoaded
    /\ InFile(path)
    /\ FileValue(path).t = "list"
    /\ \A i \in 1..Len(FileValue(path).v) : FileValue(path).v[i].t = "dict"
    /\ ~OnCli(path)

\* the record type of element i of a field of the type ty
ElementClass(ty, i) ==
    IF ty.k = "list" THEN ty.args[1].cls
    ELSE IF i <= Len(ty.args) THEN ty.args[i].cls ELSE ty.args[Len(ty.args)].cls

\* the field at path holds the instances built from the mappings of the
\* file, in their order, in a tuple for a tuple type and a list for a list
HoldsInstances(path, ty) ==
    /\ ResultAt(path).t = ty.k
    /\ Len(ResultAt(path).v) = Len(FileValue(path).v)
    /\ \A i \in 1..Len(FileValue(path).v) :
          ResultAt(path).v[i] = InstanceFrom(ElementClass(ty, i), FileValue(path).v[i])

-----------------------------------------------------------------------------
(* C16: when the file gives a sequence of mappings for a field whose type  *)
(* is a list of records or a tuple of records, a parse that returns holds, *)
(* for every mapping and in the same order, the instance of the declared   *)
(* record type built from it, in a tuple if the field is a tuple.          *)

C16_SequenceOfRecords ==
    ParseReturned =>
        \A cls \in RegisteredTypes : \A f \in LeafFields(cls) :
            (IsSequenceOfRecords(f) /\ FileGivesMappings(<<cls, f.name>>)) =>
                HoldsInstances(<<cls, f.name>>, f.type)

\* the same for the lists, and for the tuples when the file gives as many
\* mappings as the tuple type has elements
C16_SequenceOfRightLength ==
    ParseReturned =>
        \A cls \in RegisteredTypes : \A f \in LeafFields(cls) :
            (/\ IsSequenceOfRecords(f)
             /\ FileGivesMappings(<<cls, f.name>>)
             /\ (f.type.k = "tuple" =>
                    Len(FileValue(<<cls, f.name>>).v) = Len(f.type.args))) =>
                HoldsInstances(<<cls, f.name>>, f.type)

C16_Witness ==
    /\ ParseReturned
    /\ \E cls \in RegisteredTypes : \E f \in LeafFields(cls) :
          /\ f.type.k = "tuple"
          /\ IsSequenceOfRecords(f)
          /\ FileGivesMappings(<<cls, f.name>>)
          /\ Len(FileValue(<<cls, f.name>>).v) = 2
          /\ FileValue(<<cls, f.name>>).v[1] # FileValue(<<cls, f.name>>).v[2]

-----------------------------------------------------------------------------
(* C17: the Literal field holds a value from the command line or from the  *)
(* file only if the value is one of the declared literals, letter for      *)
(* letter: a token that is one of them is stored as it is and any other    *)
(* token ends the parse in argparse's error; a file value that is one of   *)
(* them is stored as it is and any other file value raises ValueError for  *)
(* the field.                                                              *)

\* the declared literals of the field mode of SampleConfig
DeclaredLiterals ==
    {FieldOf(N_SampleConfig, N_mode).type.args[i] :
        i \in 1..Len(FieldOf(N_SampleConfig, N_mode).type.args)}

C17_Literal ==
    call = "parse" =>
        /\ OnCli(<<N_SampleConfig, N_mode>>) =>
              IF StrV(args[<<N_SampleConfig, N_mode>>]) \in DeclaredLiterals
              THEN /\ outcome.kind = "return"
                   /\ ResultAt(<<N_SampleConfig, N_mode>>) =
                          StrV(args[<<N_SampleConfig, N_mode>>])
              ELSE outcome = SystemExit("argument", <<>>, <<>>)
        /\ InFile(<<N_SampleConfig, N_mode>>) =>
              IF FileValue(<<N_SampleConfig, N_mode>>) \in DeclaredLiterals
              THEN /\ outcome.kind = "return"
                   /\ ResultAt(<<N_SampleConfig, N_mode>>) =
                          FileValue(<<N_SampleConfig, N_mode>>)
              ELSE outcome = Raised("ValueError", <<N_SampleConfig, N_mode>>)

\* a token that is a literal in other letter case has been rejected
C17_Witness ==
    /\ call = "parse"
    /\ OnCli(<<N_SampleConfig, N_mode>>)
    /\ args[<<N_SampleConfig, N_mode>>] = <<"F", "a", "s", "t">>
    /\ outcome = SystemExit("argument", <<>>, <<>>)

\* a file value that is a literal in other letter case has been rejected
C17_WitnessFile ==
    /\ call = "parse"
    /\ InFile(<<N_SampleConfig, N_mode>>)
    /\ FileValue(<<N_SampleConfig, N_mode>>) = StrV(<<"F", "A", "S", "T">>)
    /\ outcome = Raised("ValueError", <<N_SampleConfig, N_mode>>)

\* a literal has been stored from the file
C17_WitnessStored ==
    /\ ParseReturned
    /\ InFile(<<N_SampleConfig, N_mode>>)
    /\ ResultAt(<<N_SampleConfig, N_mode>>) = StrV(S_slow)

-----------------------------------------------------------------------------
(* C18: for every Optional leaf of a registered record: a token on the     *)
(* command line is decoded as a token of the inner type (and ends the      *)
(* parse in argparse's error if the inner type rejects it); None in the    *)
(* file is accepted and stored as None; another file value is stored if    *)
(* it has the native type of the inner type and ends the parse with a      *)
(* type error otherwise; with neither, the declared default, None or not,  *)
(* is kept.                                                                *)

OptionalLeaves(cls) == {f \in LeafFields(cls) : f.type.k = "Optional"}

\* the file value of the Optional field at path is None or has the native
\* type of the inner type
OptionalFileValueValid(f, path) ==
    \/ FileValue(path) = NoneV
    \/ NativeTypeMatches(f.type.args[1], FileValue(path))

\* every entry of the file for a field of the registered records is valid
\* for the type of the field
FileEntriesValid ==
    \A cls \in RegisteredTypes : \A f \in LeafFields(cls) :
        InFile(<<cls, f.name>>) =>
            IF f.type.k = "Optional" THEN OptionalFileValueValid(f, <<cls, f.name>>)
            ELSE NativeTypeMatches(f.type, FileValue(<<cls, f.name>>))

C18_Optional ==
    call = "parse" =>
        /\ \A cls \in RegisteredTypes : \A f \in OptionalLeaves(cls) :
              /\ (OnCli(<<cls, f.name>>)
                    /\ IsError(TokenValue(f.type.args[1], args[<<cls, f.name>>]))) =>
                     outcome = SystemExit("argument", <<>>, <<>>)
              /\ (/\ FileLoaded /\ CliDecodes
                  /\ ~OnCli(<<cls, f.name>>)
                  /\ InFile(<<cls, f.name>>)
                  /\ ~OptionalFileValueValid(f, <<cls, f.name>>)) =>
                     outcome.kind = "raise" /\ outcome.v.exc = "TypeError"
              /\ outcome.kind = "return" =>
                     ResultAt(<<cls, f.name>>) =
                        IF OnCli(<<cls, f.name>>)
                        THEN TokenValue(f.type.args[1], args[<<cls, f.name>>])
                        ELSE IF InFile(<<cls, f.name>>)
                        THEN FileValue(<<cls, f.name>>)
                        ELSE f.value
        /\ (CliDecodes /\ (cfgfile.given => FileLoaded) /\ FileEntriesValid) =>
              outcome.kind = "return"

\* None of the file has replaced a declared default that is not None
C18_Witness ==
    /\ ParseReturned
    /\ \E cls \in RegisteredTypes : \E f \in OptionalLeaves(cls) :
          /\ f.value # NoneV
          /\ ~OnCli(<<cls, f.name>>)
          /\ InFile(<<cls, f.name>>)
          /\ FileValue(<<cls, f.name>>) = NoneV
          /\ ResultAt(<<cls, f.name>>) = NoneV

\* a file value of another type than the inner one has ended the parse
C18_WitnessRejected ==
    /\ call = "parse"
    /\ outcome.kind = "raise"
    /\ \E cls \in RegisteredTypes : \E f \in OptionalLeaves(cls) :
          /\ f.type.args[1].k = "int"
          /\ InFile(<<cls, f.name>>)
          /\ FileValue(<<cls, f.name>>).t = "bool"

\* a token has been decoded for an Optional field whose file value is None
C18_WitnessCli ==
    /\ ParseReturned
    /\ \E cls \in RegisteredTypes : \E f \in OptionalLeaves(cls) :
          /\ OnCli(<<cls, f.name>>)
          /\ InFile(<<cls, f.name>>)
          /\ FileValue(<<cls, f.name>>) = NoneV
          /\ ResultAt(<<cls, f.name>>).t = "float"

-----------------------------------------------------------------------------
(* C19: a token for a list flag and the same token in square brackets are  *)
(* decoded alike; the token is split on commas, the pieces are trimmed,    *)
(* the empty ones dropped, and the field holds the list of the remaining   *)
(* ones decoded for the element type, in their order.                      *)

\* the last call has ended as the call before it
SameOutcome == outcome.kind = orig.kind /\ outcome = orig

\* the token of the first of the two calls
BareToken == IF call = "parse_in_brackets" THEN Inside(TheToken) ELSE TheToken

\* the segments of a list token: brackets stripped when both are there,
\* split on commas, trimmed, empty pieces dropped
ListSegmentsOf(token) == Items(Unwrap(token, "[", "]"))

\* the token starts with an opening and ends with a closing bracket
InBrackets(token) == StartsWith(token, "[") /\ EndsWith(token, "]")

\* the field holds the segments of token decoded for the element type elem
HoldsSegments(elem, token) ==
    /\ ResultAt(TheDest).t = "list"
    /\ Len(ResultAt(TheDest).v) = Len(ListSegmentsOf(token))
    /\ \A i \in 1..Len(ListSegmentsOf(token)) :
          HasElementValue(elem, ListSegmentsOf(token)[i]) =>
              ResultAt(TheDest).v[i] = ElementValue(elem, ListSegmentsOf(token)[i])

ListSegmentsDecoded ==
    call = "parse" =>
        /\ outcome.kind = "return" =>
              HoldsSegments(TypeOfDest(parser, TheDest).args[1], TheToken)
        /\ (\A i \in 1..Len(ListSegmentsOf(TheToken)) :
               HasElementValue(TypeOfDest(parser, TheDest).args[1],
                               ListSegmentsOf(TheToken)[i]))
           => outcome.kind = "return"

C19_ListBrackets ==
    /\ ListSegmentsDecoded
    /\ call = "parse_in_brackets" => SameOutcome

\* the same for the tokens that are not in brackets themselves
C19_ListBracketsOnce ==
    /\ ListSegmentsDecoded
    /\ (call = "parse_in_brackets" /\ ~InBrackets(BareToken)) => SameOutcome

\* a token in brackets and the token in brackets twice are decoded to
\* different lists
C19_Differ ==
    /\ call = "parse_in_brackets"
    /\ BareToken = <<"[", "1", "]", ",", "[", "1", "]">>
    /\ TypeOfDest(parser, TheDest).args[1] = T_str
    /\ orig.kind = "return"
    /\ outcome.kind = "return"
    /\ outcome # orig

\* a token with blanks and an empty piece is decoded alike with and without
\* brackets
C19_Alike ==
    /\ call = "parse_in_brackets"
    /\ BareToken = <<"1", ",", ",", " ", "2", " ">>
    /\ outcome = orig
    /\ outcome.kind = "return"
    /\ ResultAt(TheDest) = ListV(<<IntV(1), IntV(2)>>)

-----------------------------------------------------------------------------
\* the subtree of the nested record field F of the registered record cls has
\* an override: a flag of a leaf below it is on the command line, or the
\* file gives the field a mapping that is not empty
SubtreeOverridden(cls, F) ==
    \/ \E leaf \in LeavesBelow(F.type.cls, <<cls, F.name>>) : OnCli(leaf.path)
    \/ /\ InFile(<<cls, F.name>>)
       /\ FileValue(<<cls, F.name>>).t = "dict"
       /\ DOMAIN FileValue(<<cls, F.name>>).v # {}

\* the leaves of the record type cls at the dotted name prefix that have no
\* default of their own and are neither on the command line nor in the
\* file, in the order of declaration
RECURSIVE MissingBelow(_, _, _)
MissingBelow(cls, prefix, i) ==
    IF i > Len(fields(cls)) THEN <<>>
    ELSE LET f == fields(cls)[i]
         IN  (IF /\ ~is_dataclass(f.type)
                 /\ f.dflt = "MISSING"
                 /\ ~OnCli(Append(prefix, f.name))
                 /\ ~InFile(Append(prefix, f.name))
              THEN <<Append(prefix, f.name)>> ELSE <<>>)
             \o MissingBelow(cls, prefix, i + 1)

(* C20: when the subtree of a nested record field of a registered record   *)
(* has an override, the default or factory instance of the field gives its *)
(* value to no leaf below it: a parse that returns holds for every leaf    *)
(* below the field the decoded token, else the file's value, else the      *)
(* leaf's own declared default; and when a leaf of the nested record has   *)
(* no default of its own and is absent from the command line and the file, *)
(* the parse returns nothing and, with inputs that are valid otherwise,    *)
(* ends in the error that reports the missing leaves of the nested record. *)
C20_NoParentDefaultOnOverride ==
    call = "parse" =>
        \A cls \in RegisteredTypes : \A F \in RecordFields(cls) :
            SubtreeOverridden(cls, F) =>
                /\ outcome.kind = "return" =>
                      \A leaf \in LeavesBelow(F.type.cls, <<cls, F.name>>) :
                          IF OnCli(leaf.path)
                          THEN ResultAt(leaf.path) =
                                   TokenValue(leaf.field.type, args[leaf.path])
                          ELSE IF InFile(leaf.path)
                          THEN ResultAt(leaf.path) = FileValue(leaf.path)
                          ELSE /\ leaf.field.dflt # "MISSING"
                               /\ ResultAt(leaf.path) = leaf.field.value
                /\ MissingBelow(F.type.cls, <<cls, F.name>>, 1) # <<>> =>
                      /\ outcome.kind # "return"
                      /\ (/\ CliDecodes
                          /\ cfgfile.given => FileLoaded
                          /\ F = fields(cls)[1])
                         => outcome = SystemExit("missing", F.type.cls,
                                                 MissingBelow(F.type.cls, <<cls, F.name>>, 1))

\* one leaf of the nested record is given by the file alone, the other has
\* a value in the factory instance only, and the call has ended in the
\* error that names it
C20_Witness ==
    /\ call = "parse"
    /\ parser.dataclass_types = <<N_OuterWithFactory>>
    /\ args = <<>>
    /\ InFile(<<N_OuterWithFactory, N_inner, N_a>>)
    /\ ~InFile(<<N_OuterWithFactory, N_inner, N_b>>)
    /\ FieldOf(N_OuterWithFactory, N_inner).value.v.fields[N_b] = IntV(2)
    /\ outcome = SystemExit("missing", N_InnerWithNoDefaults,
                            <<<<N_OuterWithFactory, N_inner, N_b>>>>)

\* the same with the override on the command line
C20_WitnessCli ==
    /\ call = "parse"
    /\ OnCli(<<N_OuterWithFactory, N_inner, N_b>>)
    /\ ~cfgfile.given
    /\ outcome = SystemExit("missing", N_InnerWithNoDefaults,
                            <<<<N_OuterWithFactory, N_inner, N_a>>>>)

\* both leaves are given, one by the command line and one by the file, and
\* the parse has returned with them
C20_WitnessReturned ==
    /\ ParseReturned
    /\ OnCli(<<N_OuterWithFactory, N_inner, N_a>>)
    /\ ~OnCli(<<N_OuterWithFactory, N_inner, N_b>>)
    /\ InFile(<<N_OuterWithFactory, N_inner, N_b>>)
    /\ ResultAt(<<N_OuterWithFactory, N_inner, N_b>>) = IntV(5)

-----------------------------------------------------------------------------
\* the leaves below the nested record fields of the registered records
NestedLeaves ==
    UNION {UNION {LeavesBelow(F.type.cls, <<cls, F.name>>) : F \in RecordFields(cls)} :
               cls \in RegisteredTypes}

(* C21: a value the file gives to a scalar leaf of a nested record is      *)
(* validated as the value of a top-level leaf is: when it has not the      *)
(* native type of the declared one the parse ends with a type error, and   *)
(* no parse returns with such a value in the nested instance.              *)
C21_NestedFileValidated ==
    call = "parse" =>
        /\ (FileLoaded /\ CliDecodes /\ FileMismatches(NestedLeaves) # {})
              => outcome.kind = "raise" /\ outcome.v.exc = "TypeError"
        /\ outcome.kind = "return" => FileMismatches(NestedLeaves) = {}

\* a parse has returned with a string of the file in a nested leaf declared
\* int
C21_Stored ==
    /\ ParseReturned
    /\ \E leaf \in FileMismatches(NestedLeaves) :
          /\ leaf.field.type.k = "int"
          /\ FileValue(leaf.path).t = "str"
          /\ ResultAt(leaf.path) = FileValue(leaf.path)

-----------------------------------------------------------------------------
\* the record fields of the nested records of the registered records: the
\* dotted name of the enclosing field and the field
DeeperRecordFields ==
    UNION {UNION {{[prefix |-> <<cls, F.name>>, field |-> G] : G \in RecordFields(F.type.cls)}
                      : F \in RecordFields(cls)}
               : cls \in RegisteredTypes}

\* the enclosing record field of d is re-resolved leaf by leaf: a leaf below
\* it is on the command line or the file gives it a mapping that is not
\* empty
Reresolved(d) ==
    \/ \E key \in DOMAIN args : StartsWithDot(key, d.prefix)
    \/ /\ InFile(d.prefix)
       /\ FileValue(d.prefix).t = "dict"
       /\ DOMAIN FileValue(d.prefix).v # {}

\* no leaf below the deeper record field d is on the command line and the
\* file has no entry for it
NoOverrideBelow(d) ==
    /\ \A key \in DOMAIN args : ~StartsWithDot(key, Append(d.prefix, d.field.name))
    /\ ~InFile(Append(d.prefix, d.field.name))

(* C22: while a nested record is re-resolved leaf by leaf, a record field  *)
(* of it that has no leaf on the command line and no subtree in the file   *)
(* keeps its own default or factory instance: a parse that returns holds   *)
(* that instance in the field, and no parse ends in the error that reports *)
(* missing leaves of the field's record.                                   *)
C22_DeeperDefaultKept ==
    call = "parse" =>
        \A d \in DeeperRecordFields :
            (Reresolved(d) /\ NoOverrideBelow(d) /\ d.field.dflt # "MISSING") =>
                /\ outcome.kind = "return" =>
                      ResultAt(Append(d.prefix, d.field.name)) = d.field.value
                /\ ~(/\ outcome.kind = "SystemExit"
                     /\ outcome.v.why = "missing"
                     /\ outcome.v.cls = d.field.type.cls)

\* the instance built from the defaults of the leaves of the record type
\* cls; no instance when a leaf has none
RECURSIVE FromLeafDefaults(_)
FromLeafDefaults(cls) ==
    InstV(cls, [n \in FieldNames(cls) |->
                   IF is_dataclass(FieldOf(cls, n).type)
                   THEN FromLeafDefaults(FieldOf(cls, n).type.cls)
                   ELSE FieldOf(cls, n).value])

\* what happens in its place: the field is rebuilt from the defaults of its
\* leaves
C22_DeeperRebuilt ==
    call = "parse" =>
        \A d \in DeeperRecordFields :
            (Reresolved(d) /\ NoOverrideBelow(d) /\ outcome.kind = "return") =>
                ResultAt(Append(d.prefix, d.field.name)) =
                    FromLeafDefaults(d.field.type.cls)

\* the rule at the first level of nesting: a record field of a registered
\* record without a leaf on the command line and without an entry in the
\* file holds its default instance
C22_FirstLevelDefaultKept ==
    ParseReturned =>
        \A cls \in RegisteredTypes : \A F \in RecordFields(cls) :
            (/\ \A key \in DOMAIN args : ~StartsWithDot(key, <<cls, F.name>>)
             /\ ~InFile(<<cls, F.name>>)
             /\ F.dflt # "MISSING")
            => ResultAt(<<cls, F.name>>) = F.value

\* a flag of Top.middle.z alone has ended the parse in the error that
\* reports the leaves of Top.middle.inner missing
C22_MissingRaised ==
    /\ call = "parse"
    /\ DOMAIN args = {<<N_Top, N_middle, N_z>>}
    /\ ~cfgfile.given
    /\ outcome = SystemExit("missing", N_InnerWithNoDefaults,
                            <<<<N_Top, N_middle, N_inner, N_a>>,
                              <<N_Top, N_middle, N_inner, N_b>>>>)

\* Top.middle.base has been rebuilt from the defaults of the leaves of Inner
C22_Rebuilt ==
    /\ ParseReturned
    /\ parser.dataclass_types = <<N_Top>>
    /\ \A key \in DOMAIN args : ~StartsWithDot(key, <<N_Top, N_middle, N_base>>)
    /\ ~InFile(<<N_Top, N_middle, N_base>>)
    /\ ResultAt(<<N_Top, N_middle, N_base>>) = Inner_default
    /\ Inner_default # Inner_other

-----------------------------------------------------------------------------
\* value is an instance of the record type cls and so is, at any depth, the
\* value of every field of it whose type is a record type
RECURSIVE HoldsRecords(_, _)
HoldsRecords(value, cls) ==
    /\ value.t = "instance"
    /\ value.v.cls = cls
    /\ \A F \in RecordFields(cls) : HoldsRecords(value.v.fields[F.name], F.type.cls)

(* C23: after a parse that returns, every field whose type is a record     *)
(* type holds an instance of that type, whatever the file gives for the    *)
(* field: an empty mapping or a value that is no mapping is never left in  *)
(* the field.                                                              *)
C23_RecordFieldsHoldInstances ==
    ParseReturned => \A cls \in RegisteredTypes : HoldsRecords(outcome.v[<<cls>>], cls)

\* the same when the file gives every record field of the registered records
\* no entry or a mapping that is not empty
C23_RecordFieldsOfNonEmptySubtrees ==
    (/\ ParseReturned
     /\ \A cls \in RegisteredTypes : \A F \in RecordFields(cls) :
           InFile(<<cls, F.name>>) =>
               /\ FileValue(<<cls, F.name>>).t = "dict"
               /\ DOMAIN FileValue(<<cls, F.name>>).v # {})
    => \A cls \in RegisteredTypes : HoldsRecords(outcome.v[<<cls>>], cls)

\* a parse has returned with the empty mapping of the file in a record field
C23_EmptyMappingLeft ==
    /\ ParseReturned
    /\ \E cls \in RegisteredTypes : \E F \in RecordFields(cls) :
          /\ InFile(<<cls, F.name>>)
          /\ FileValue(<<cls, F.name>>) = DictV(<<>>)
          /\ ResultAt(<<cls, F.name>>) = DictV(<<>>)

\* a parse has returned with a number of the file in a record field
C23_NumberLeft ==
    /\ ParseReturned
    /\ \E cls \in RegisteredTypes : \E F \in RecordFields(cls) :
          /\ InFile(<<cls, F.name>>)
          /\ FileValue(<<cls, F.name>>) = IntV(7)
          /\ ResultAt(<<cls, F.name>>) = IntV(7)

-----------------------------------------------------------------------------
\* the records below the record type cls at the dotted name prefix, itself
\* included: the type and the dotted name of each
RECURSIVE RecordsBelow(_, _)
RecordsBelow(cls, prefix) ==
    {[cls |-> cls, prefix |-> prefix]}
    \cup UNION {RecordsBelow(F.type.cls, Append(prefix, F.name)) : F \in RecordFields(cls)}

\* the leaves of the record r whose value comes from the file and has not
\* the native type of the declared one
DirectMismatches(r) ==
    FileMismatches({[path |-> Append(r.prefix, f.name), field |-> f] : f \in LeafFields(r.cls)})

\* the record r has a required leaf that no source gives and a leaf with a
\* mismatching file value
MissingAndMismatch(r) ==
    /\ MissingBelow(r.cls, r.prefix, 1) # <<>>
    /\ DirectMismatches(r) # {}

(* C24: a parse of a record that has both a required leaf absent from the  *)
(* command line and the file and a leaf whose file value has not the       *)
(* declared type ends with the type error, not with the error that reports *)
(* the missing leaves, whichever of the two fields is declared first.      *)
C24_MismatchBeforeMissing ==
    (call = "parse" /\ FileLoaded /\ CliDecodes) =>
        \A r \in RecordsBelow(parser.dataclass_types[1], <<parser.dataclass_types[1]>>) :
            MissingAndMismatch(r) =>
                outcome.kind = "raise" /\ outcome.v.exc = "TypeError"

\* the same for the registered record itself
C24_MismatchBeforeMissingTopLevel ==
    (call = "parse" /\ FileLoaded /\ CliDecodes) =>
        LET r == [cls |-> parser.dataclass_types[1], prefix |-> <<parser.dataclass_types[1]>>]
        IN  MissingAndMismatch(r) =>
                outcome.kind = "raise" /\ outcome.v.exc = "TypeError"

\* the first field is missing, a later one mismatches, and the call has
\* ended with the type error
C24_MissingFirst ==
    /\ call = "parse"
    /\ parser.dataclass_types = <<N_RequiredFieldsConfig>>
    /\ <<N_RequiredFieldsConfig, N_required_string>> \in
           {MissingLeaves(N_RequiredFieldsConfig)[i] :
                i \in 1..Len(MissingLeaves(N_RequiredFieldsConfig))}
    /\ InFile(<<N_RequiredFieldsConfig, N_optional_field>>)
    /\ FileValue(<<N_RequiredFieldsConfig, N_optional_field>>).t = "int"
    /\ outcome.kind = "raise" /\ outcome.v.exc = "TypeError"

\* the first field mismatches, a later one is missing, and the call has
\* ended with the type error
C24_MismatchFirst ==
    /\ call = "parse"
    /\ parser.dataclass_types = <<N_RequiredFieldsConfig>>
    /\ InFile(<<N_RequiredFieldsConfig, N_required_string>>)
    /\ FileValue(<<N_RequiredFieldsConfig, N_required_string>>).t = "int"
    /\ MissingLeaves(N_RequiredFieldsConfig) = <<<<N_RequiredFieldsConfig, N_required_int>>>>
    /\ outcome.kind = "raise" /\ outcome.v.exc = "TypeError"

\* a nested record with a mismatching file value for one leaf and no value
\* for the other has ended the call with the error that reports the
\* missing leaf
C24_NestedMissingReported ==
    /\ call = "parse"
    /\ args = <<>>
    /\ InFile(<<N_OuterWithFactory, N_inner, N_a>>)
    /\ FileValue(<<N_OuterWithFactory, N_inner, N_a>>).t = "str"
    /\ outcome = SystemExit("missing", N_InnerWithNoDefaults,
                            <<<<N_OuterWithFactory, N_inner, N_b>>>>)

-----------------------------------------------------------------------------
\* the keys of the result of the last call
ResultKeys == DOMAIN outcome.v

RecordNames == {<<cls>> : cls \in RegisteredTypes}

\* the dests of the flags of the leaves of nested records
NestedLeafDests == {d \in Dests(parser) : Len(d) > 2}

(* C25: the keys of the result of a parse that returns are the names of    *)
(* the registered records and the dests of the custom flags, and nothing   *)
(* else: no dotted name of a leaf is a key, whether its flag was on the    *)
(* command line or not.                                                    *)
C25_ResultKeys ==
    ParseReturned => ResultKeys = RecordNames \cup FlagDests(parser)

\* what the keys are: the dests of the leaves of nested records besides
C25_ResultKeysWithNestedLeaves ==
    ParseReturned => ResultKeys = RecordNames \cup FlagDests(parser) \cup NestedLeafDests

\* the dotted name of a nested leaf whose flag was not on the command line
\* is a key of the result, beside a custom flag
C25_NestedLeafKey ==
    /\ ParseReturned
    /\ FlagDests(parser) # {}
    /\ \E d \in NestedLeafDests : ~OnCli(d) /\ d \in ResultKeys /\ outcome.v[d] = NoneV

\* the same for one whose flag was on the command line
C25_NestedLeafKeySupplied ==
    /\ ParseReturned
    /\ \E d \in NestedLeafDests : OnCli(d) /\ d \in ResultKeys /\ outcome.v[d] # NoneV

-----------------------------------------------------------------------------
\* what the segments of TupleSegments become under an element type when the
\* literal is coerced to the type: 1.5 is truncated for int, 1 and 2 are
\* widened for float; no entry for the segment b under a number type
HasCoercedValue(ty, seg) == ty.k = "str" \/ seg \in {<<"1">>, <<"2">>, <<"1", ".", "5">>}

CoercedValue(ty, seg) ==
    CASE ty.k = "str" -> StrV(seg)
      [] ty.k = "int" /\ seg \in {<<"1">>, <<"1", ".", "5">>} -> IntV(1)
      [] ty.k = "int" /\ seg = <<"2">> -> IntV(2)
      [] ty.k = "float" /\ seg = <<"1">> -> FloatV(1, 0)
      [] ty.k = "float" /\ seg = <<"2">> -> FloatV(2, 0)
      [] ty.k = "float" /\ seg = <<"1", ".", "5">> -> FloatV(15, 1)

(* C26: a token for a tuple flag with as many segments as element types is *)
(* accepted whenever every segment for a number type is written as a       *)
(* number, of either kind: a segment written as a float is truncated for   *)
(* an int element and one written as an integer is widened for a float     *)
(* element; neither ends the parse.                                        *)
C26_TupleCoercion ==
    call = "parse" =>
        LET ty == TypeOfDest(parser, TheDest)
            segs == Segments(TheToken)
        IN  Len(segs) = Len(ty.args) =>
                IF \A i \in 1..Len(segs) : HasCoercedValue(ty.args[i], segs[i])
                THEN /\ outcome.kind = "return"
                     /\ ResultAt(TheDest) =
                            TupleV([i \in 1..Len(segs) |-> CoercedValue(ty.args[i], segs[i])])
                ELSE outcome = SystemExit("argument", <<>>, <<>>)

\* 1.5 has been truncated to 1 in a tuple of three ints
C26_Witness ==
    /\ ParseReturned
    /\ TheToken = <<"1", ".", "5", ",", " ", "2", " ", ",", "1">>
    /\ ResultAt(TheDest) = TupleV(<<IntV(1), IntV(2), IntV(1)>>)

\* 2 has been widened to 2.0 in a tuple of a string and a float
C26_WitnessWidened ==
    /\ ParseReturned
    /\ TheToken = <<"b", ",", " ", "2", " ">>
    /\ ResultAt(TheDest) = TupleV(<<StrV(<<"b">>), FloatV(2, 0)>>)

-----------------------------------------------------------------------------
\* every segment of the token is accepted by the decoder of a standalone
\* flag of its element type
ScalarDecoderAccepts(ty, segs) ==
    \A i \in 1..Len(segs) : ~IsError(type_parser(ty.args[i], segs[i]))

\* the elements of the field are what that decoder gives for the segments
HoldsScalarDecoded(ty, segs) ==
    ResultAt(TheDest) = TupleV([i \in 1..Len(segs) |-> type_parser(ty.args[i], segs[i])])

(* C27: a segment of a tuple token is decoded as a token of a standalone   *)
(* flag of the element type is: a token with the right number of segments  *)
(* is accepted exactly when the scalar decoder accepts every segment, and  *)
(* then each element is the value the scalar decoder gives.                *)
C27_SegmentsAsScalars ==
    call = "parse" =>
        LET ty == TypeOfDest(parser, TheDest)
            segs == Segments(TheToken)
        IN  Len(segs) = Len(ty.args) =>
                /\ outcome.kind = "return" <=> ScalarDecoderAccepts(ty, segs)
                /\ outcome.kind = "return" => HoldsScalarDecoded(ty, segs)

\* the same for the tokens without a segment written as a float for an int
\* element
C27_SegmentsAsScalarsButFloatForInt ==
    call = "parse" =>
        LET ty == TypeOfDest(parser, TheDest)
            segs == Segments(TheToken)
        IN  (/\ Len(segs) = Len(ty.args)
             /\ \A i \in 1..Len(segs) :
                   ty.args[i].k = "int" => segs[i] # <<"1", ".", "5">>) =>
                /\ outcome.kind = "return" <=> ScalarDecoderAccepts(ty, segs)
                /\ outcome.kind = "return" => HoldsScalarDecoded(ty, segs)

\* a parse has returned with a segment the scalar int decoder rejects
C27_Truncated ==
    /\ ParseReturned
    /\ TypeOfDest(parser, TheDest) = T_tuple(<<T_int, T_int, T_int>>)
    /\ Segments(TheToken)[1] = <<"1", ".", "5">>
    /\ IsError(type_parser(T_int, <<"1", ".", "5">>))
    /\ ResultAt(TheDest).v[1] = IntV(1)

-----------------------------------------------------------------------------
\* the literals of the JSON token of the last call, by position
JsonLiterals ==
    LET inner == Inside(TheToken)
    IN  IF inner = <<>> THEN <<>>
        ELSE [i \in 1..Len(Split(inner, ",")) |->
                 LET member == Split(inner, ",")[i]
                 IN  SubSeq(member, Find(member, ":", 1) + 2, Len(member))]

(* C28: the two syntaxes of a dict token convert an entry alike: for the   *)
(* value types int, float and bool, entries written with the same keys and *)
(* literals as key=value and as a JSON object are both rejected or both    *)
(* accepted with the same mapping; the empty token gives the empty         *)
(* mapping, as {} does.                                                    *)
C28_SyntaxesAgree ==
    call = "parse_json" =>
        /\ SameOutcome
        /\ TheToken = <<"{", "}">> =>
              outcome.kind = "return" /\ ResultAt(TheDest) = DictV(<<>>)

\* the same for the tokens without the literals 1 and 0 under the value
\* type bool
C28_SyntaxesAgreeButNumbersForBool ==
    (/\ call = "parse_json"
     /\ TypeOfDest(parser, TheDest).args[2].k = "bool" =>
           \A i \in 1..Len(JsonLiterals) : JsonLiterals[i] \notin {<<"1">>, <<"0">>})
    => /\ SameOutcome
       /\ TheToken = <<"{", "}">> =>
             outcome.kind = "return" /\ ResultAt(TheDest) = DictV(<<>>)

\* k=1 has been accepted as true for the value type bool and the JSON
\* object with 1 rejected
C28_NumberForBool ==
    /\ call = "parse_json"
    /\ TypeOfDest(parser, TheDest) = T_dict(T_str, T_bool)
    /\ JsonLiterals = <<<<"1">>>>
    /\ orig.kind = "return"
    /\ orig.v[<<N_BoolDictConfig>>].v.fields[N_str_bool_dict] = DictV(StrV(<<"k">>) :> BoolV(TRUE))
    /\ outcome = SystemExit("argument", <<>>, <<>>)

\* both syntaxes have widened the integer 2 for the value type float
C28_BothWiden ==
    /\ call = "parse_json"
    /\ TypeOfDest(parser, TheDest) = T_dict(T_str, T_float)
    /\ JsonLiterals = <<<<"2">>, <<"1", ".", "5">>>>
    /\ outcome = orig
    /\ ResultAt(TheDest) = DictV((StrV(<<"k">>) :> FloatV(2, 0)) @@ (StrV(<<"j">>) :> FloatV(15, 1)))

\* both syntaxes have rejected a float for the value type int
C28_BothReject ==
    /\ call = "parse_json"
    /\ TypeOfDest(parser, TheDest) = T_dict(T_str, T_int)
    /\ JsonLiterals = <<<<"1", ".", "5">>>>
    /\ orig = SystemExit("argument", <<>>, <<>>)
    /\ outcome = orig

-----------------------------------------------------------------------------
(* C29: a list, tuple or dict value that the file gives to a field, the    *)
(* flag of the field not being on the command line, is validated element   *)
(* by element.  The parse ends with a TypeError or a ValueError if the     *)
(* value for a list is no list or has an element that has not the native   *)
(* type of the element type, if the value for a tuple of scalars is no     *)
(* list or has another length than the tuple type or an element that has   *)
(* not the native type of its position, or if the value for a dict is no   *)
(* mapping or has a key or a value that has not the native type of the     *)
(* key type or the value type.  Otherwise the parse returns and the field  *)
(* of the result holds the value of the file as it is.                     *)

\* the fields of cls whose type is a list, a tuple or a dict of scalars
CompoundLeaves(cls) ==
    {f \in LeafFields(cls) :
        /\ f.type.k \in {"list", "tuple", "dict"}
        /\ \A i \in 1..Len(f.type.args) :
              f.type.args[i].k \in {"int", "float", "bool", "str"}}

\* every element of value matches the declared element types
ElementwiseMatches(ty, value) ==
    CASE ty.k = "list" ->
           /\ value.t = "list"
           /\ \A i \in 1..Len(value.v) : NativeTypeMatches(ty.args[1], value.v[i])
      [] ty.k = "tuple" ->
           /\ value.t = "list"
           /\ Len(value.v) = Len(ty.args)
           /\ \A i \in 1..Len(value.v) : NativeTypeMatches(ty.args[i], value.v[i])
      [] ty.k = "dict" ->
           /\ value.t = "dict"
           /\ \A k \in DOMAIN value.v :
                 /\ NativeTypeMatches(ty.args[1], k)
                 /\ NativeTypeMatches(ty.args[2], value.v[k])
      [] OTHER -> FALSE

C29_CompoundFileValidated ==
    (call = "parse" /\ FileLoaded) =>
        \A cls \in RegisteredTypes : \A f \in CompoundLeaves(cls) :
            (InFile(<<cls, f.name>>) /\ ~OnCli(<<cls, f.name>>)) =>
                IF ElementwiseMatches(f.type, FileValue(<<cls, f.name>>))
                THEN /\ outcome.kind = "return"
                     /\ ResultAt(<<cls, f.name>>) = FileValue(<<cls, f.name>>)
                ELSE /\ outcome.kind = "raise"
                     /\ outcome.v.exc \in {"TypeError", "ValueError"}

\* a list of the file for a list[int] field whose first element is an
\* integer and whose second is none has ended the parse
C29_Witness ==
    /\ call = "parse" /\ FileLoaded /\ args = <<>>
    /\ InFile(<<N_ListConfig, N_numbers>>)
    /\ FileValue(<<N_ListConfig, N_numbers>>).t = "list"
    /\ Len(FileValue(<<N_ListConfig, N_numbers>>).v) >= 2
    /\ FileValue(<<N_ListConfig, N_numbers>>).v[1].t = "int"
    /\ FileValue(<<N_ListConfig, N_numbers>>).v[2].t # "int"
    /\ outcome.kind = "raise"

\* a list of integers of the file is the value of the list[int] field
C29_WitnessAccepted ==
    /\ ParseReturned /\ FileLoaded /\ args = <<>>
    /\ InFile(<<N_ListConfig, N_numbers>>)
    /\ Len(FileValue(<<N_ListConfig, N_numbers>>).v) >= 2
    /\ ResultAt(<<N_ListConfig, N_numbers>>) = FileValue(<<N_ListConfig, N_numbers>>)

\* a list of two integers for a tuple of three has ended the parse
C29_WitnessLength ==
    /\ call = "parse" /\ FileLoaded /\ args = <<>>
    /\ InFile(<<N_TupleConfig, N_coords>>)
    /\ FileValue(<<N_TupleConfig, N_coords>>) = ListV(<<IntV(1), IntV(1)>>)
    /\ outcome.kind = "raise" /\ outcome.v.exc = "ValueError"

\* a mapping with an integer key has ended the parse
C29_WitnessKey ==
    /\ call = "parse" /\ FileLoaded /\ args = <<>>
    /\ InFile(<<N_DictTypesConfig, N_str_int_dict>>)
    /\ FileValue(<<N_DictTypesConfig, N_str_int_dict>>) = DictV(IntV(3) :> IntV(1))
    /\ outcome.kind = "raise" /\ outcome.v.exc = "TypeError"

\* a value of the file that does not match was not validated: the flag of
\* the field is on the command line
C29_WitnessCli ==
    /\ ParseReturned /\ FileLoaded
    /\ \E cls \in RegisteredTypes : \E f \in CompoundLeaves(cls) :
          /\ InFile(<<cls, f.name>>) /\ OnCli(<<cls, f.name>>)
          /\ ~ElementwiseMatches(f.type, FileValue(<<cls, f.name>>))

-----------------------------------------------------------------------------
(* C30: a call of parse on a parser that has been called before, whatever  *)
(* the earlier calls were given, however they ended and whatever the       *)
(* caller has done to their results, has the outcome that the same call    *)
(* has on a parser constructed anew for the same record types.             *)

\* the outcome of the last call on a parser constructed anew
FreshOutcome == parse(DataclassArgParser(parser.dataclass_types), args, cfgfile)

C30_WitnessFactory ==
    /\ call = "parse_again"
    /\ orig.kind = "return" /\ outcome.kind = "return"
    /\ <<N_ListConfig>> \in DOMAIN outcome.v
    /\ orig.v[<<N_ListConfig>>].v.fields[N_names] =
          ListV(<<StrV(<<"a">>), StrV(<<"b">>), IntV(99)>>)
    /\ outcome.v[<<N_ListConfig>>].v.fields[N_names] = ListV(<<StrV(<<"a">>), StrV(<<"b">>)>>)

\* the call before ended in an error and the call returns
C30_WitnessAfterFailure ==
    /\ call = "parse_again"
    /\ orig.kind \in {"SystemExit", "raise"} /\ outcome.kind = "return"

====
